---------------------------- MODULE Spec2Model ----------------------------
(***************************************************************************)
(* Landmark prediction engine of the dynamic EASIX-DRI model               *)
(* (src/dynamicModel.ts): matrix toolkit, observation filter, BLUP of the  *)
(* random effects, landmark projection and Cox survival evaluation.        *)
(*                                                                         *)
(* Numbers.  A JavaScript number is modelled as a pair <<n, d>>:           *)
(*   d > 0   the rational n/d in lowest terms (exact arithmetic, so the    *)
(*           rounding of IEEE doubles is not modelled);                    *)
(*   <<1,0>>, <<-1,0>>   +Infinity and -Infinity;                          *)
(*   <<0,0>>             NaN;                                              *)
(*   <<0,-1>>            undefined (an absent optional field).             *)
(* Zero is unsigned: x/0 takes the sign of x.                              *)
(***************************************************************************)
EXTENDS Integers, Sequences, FiniteSets, TLC

VARIABLES
    model,          \* the shared ModelParameters (module constant `model`)
    observations,   \* the observations argument of the current call
    dri,            \* the dri argument of the current call
    pc,             \* "ready" | "done": position of the caller
    engine,         \* the predictDynamicEASIX in use: "gls" | "ols"
    result,         \* outcome of the call: a result record or an error
    preLandmark,    \* the filtered observation list the call worked on
    entry,          \* snapshot of (observations, dri, model) at call entry
    invArg,         \* matrixInverse: argument before and after the call
    calls,          \* outcomes of the last two calls on the current arguments
    hazardCalls,    \* the last two interpolateBaselineHazard calls: (targetTime, H0)
    patients,       \* interleaved calls: arguments, position and outcome of each
    frames,         \* interleaved calls: the local constants of each call
    matrixCall,     \* a call of a matrix primitive: arguments and outcome
    labRows,        \* useEasixCalculation: the labRows argument
    driSelection,   \* useEasixCalculation: the driSelection argument
    calculation,    \* useEasixCalculation: the CalculationResult returned
    transplantDate, \* App: the transplant date entered ('' when none)
    results,        \* App: the CalculationResult on display, or null
    uploadMessage,  \* App: the message of the last upload, or null
    upload,         \* parseFile: the calls made, each with what it returned
    script          \* testPredictions: position, console output, exit status

vars == <<model, observations, dri, pc, engine, result, preLandmark, entry,
          invArg, calls, hazardCalls, patients, frames, matrixCall,
          labRows, driSelection, calculation, transplantDate, results,
          uploadMessage, upload, script>>

\* the state of one caller of the engine, of the interleaved calls, of a
\* matrix primitive call and of the hook
callerVars == <<observations, dri, pc, result, preLandmark, entry, invArg>>
interleavedVars == <<patients, frames>>
hookVars == <<labRows, driSelection, calculation>>
appVars == <<transplantDate, results, uploadMessage, upload>>

-----------------------------------------------------------------------------
(* Number layer *)

NaN == <<0, 0>>
PosInf == <<1, 0>>
NegInf == <<-1, 0>>
Undefined == <<0, -1>>
Zero == <<0, 1>>
One == <<1, 1>>

AbsInt(a) == IF a < 0 THEN -a ELSE a

RECURSIVE Gcd(_, _)
Gcd(a, b) == IF b = 0 THEN a ELSE Gcd(b, a % b)

\* n/d in lowest terms with a positive denominator (d # 0)
Rat(n, d) ==
    LET g == Gcd(AbsInt(n), AbsInt(d))
        s == IF d < 0 THEN -1 ELSE 1
    IN <<s * (n \div g), AbsInt(d) \div g>>

Num(k) == <<k, 1>>

isNaN(x) == x = NaN \/ x = Undefined        \* Number(undefined) is NaN
isFinite(x) == x[2] > 0
IsInf(x) == x = PosInf \/ x = NegInf
Sign(x) == IF x[1] > 0 THEN 1 ELSE IF x[1] < 0 THEN -1 ELSE 0
InfOf(s) == IF s > 0 THEN PosInf ELSE NegInf

Neg(x) == IF isNaN(x) THEN NaN ELSE <<-x[1], x[2]>>

Add(x, y) ==
    IF isNaN(x) \/ isNaN(y) THEN NaN
    ELSE IF IsInf(x) /\ IsInf(y) THEN (IF x = y THEN x ELSE NaN)
    ELSE IF IsInf(x) THEN x
    ELSE IF IsInf(y) THEN y
    ELSE IF x[1] = 0 THEN y
    ELSE IF y[1] = 0 THEN x
    ELSE LET g == Gcd(x[2], y[2])
         IN Rat(x[1] * (y[2] \div g) + y[1] * (x[2] \div g),
                (x[2] \div g) * y[2])

Sub(x, y) == Add(x, Neg(y))

Mul(x, y) ==
    IF isNaN(x) \/ isNaN(y) THEN NaN
    ELSE IF IsInf(x) \/ IsInf(y)
         THEN (IF Sign(x) * Sign(y) = 0 THEN NaN ELSE InfOf(Sign(x) * Sign(y)))
    ELSE IF x[1] = 0 \/ y[1] = 0 THEN Zero
    ELSE IF x = One THEN y
    ELSE IF y = One THEN x
    ELSE LET g1 == Gcd(AbsInt(x[1]), y[2])
             g2 == Gcd(AbsInt(y[1]), x[2])
         IN <<(x[1] \div g1) * (y[1] \div g2), (x[2] \div g2) * (y[2] \div g1)>>

Div(x, y) ==
    IF isNaN(x) \/ isNaN(y) THEN NaN
    ELSE IF IsInf(y) THEN (IF IsInf(x) THEN NaN ELSE Zero)
    ELSE IF y[1] = 0 THEN (IF x[1] = 0 THEN NaN ELSE InfOf(Sign(x)))
    ELSE IF IsInf(x) THEN InfOf(Sign(x) * Sign(y))
    ELSE Mul(x, Rat(y[2], y[1]))

Abs(x) == IF isNaN(x) THEN NaN ELSE <<AbsInt(x[1]), x[2]>>

\* x < y and x <= y; every comparison with NaN is false
Lt(x, y) ==
    IF isNaN(x) \/ isNaN(y) THEN FALSE
    ELSE IF IsInf(x) \/ IsInf(y)
         THEN (x # y /\ (x = NegInf \/ y = PosInf))
    ELSE Sign(Sub(x, y)) < 0

Le(x, y) == ~isNaN(x) /\ ~isNaN(y) /\ (x = y \/ Lt(x, y))

\* JavaScript truthiness of a number or undefined: !x
Falsy(x) == x = Undefined \/ x = NaN \/ x = Zero

\* Math.exp is modelled in fixed point: e^x rounded down to a thousandth
\* for 0 <= x < 14 and to a millionth for x < 0, Infinity above 709.  The
\* model returns 0 below e^-13.8, where Math.exp returns a positive number
\* down to e^-745.

\* e^q in thousandths for q = 0..13
ExpTable ==
    <<1000, 2718, 7389, 20086, 54598, 148413, 403429, 1096633, 2980958,
      8103084, 22026466, 59874142, 162754791, 442413392>>

\* e^(f/10000) in ten-thousandths for 0 <= f < 10000: Taylor polynomial of
\* degree 9 in Horner form
RECURSIVE ExpFrac(_, _)
ExpFrac(f, i) ==
    IF i > 9 THEN 10000
    ELSE 10000 + (f * ExpFrac(f, i + 1)) \div (10000 * i)

\* e^x in thousandths for a finite x with 0 <= x < 14
ExpThousandths(x) ==
    LET q == x[1] \div x[2]
        r == x[1] % x[2]
        k == x[2] \div 100000 + 1
        f == ((r \div k) * 10000) \div (x[2] \div k)
        ef == ExpFrac(IF f > 9999 THEN 9999 ELSE f, 1)
        eq == ExpTable[q + 1]
    IN (eq \div 10000) * ef + ((eq % 10000) * ef) \div 10000

Exp(x) ==
    IF isNaN(x) THEN NaN
    ELSE IF x = PosInf THEN PosInf
    ELSE IF x = NegInf THEN Zero
    ELSE IF x[1] >= 0
         THEN (IF x[1] \div x[2] >= 710 THEN PosInf
               ELSE Rat(ExpThousandths(x), 1000))
    ELSE IF (-x[1]) \div x[2] >= 14 THEN Zero
    ELSE Rat(1000000000 \div ExpThousandths(Neg(x)), 1000000)

-----------------------------------------------------------------------------
(* Matrix utility functions: a matrix is a sequence of rows *)

\* A JavaScript array holds its elements: each is computed once, when the
\* array is built.
Array(f) == f \o <<>>

\* array.reduce((sum, v) => sum + v, 0): left fold from 0
RECURSIVE SumSeq(_)
SumSeq(s) ==
    IF s = <<>> THEN Zero
    ELSE Add(SumSeq(SubSeq(s, 1, Len(s) - 1)), s[Len(s)])

eye(n) ==
    Array([i \in 1..n |-> Array([j \in 1..n |-> IF i = j THEN One ELSE Zero])])

\* the scalar is not applied
scalarMultiply_unscaled(scalar, A) == A

scalarMultiply(scalar, A) ==
    Array([i \in 1..Len(A) |->
              Array([j \in 1..Len(A[i]) |-> Mul(scalar, A[i][j])])])

\* row[j] of a JavaScript array: undefined outside the array
Index(row, j) == IF j \in 1..Len(row) THEN row[j] ELSE Undefined

\* B[i][j] throws a TypeError when B has no row i (B[i] is undefined)
matrixAddThrows(A, B) ==
    \E i \in 1..Len(A) : Len(A[i]) > 0 /\ i > Len(B)

matrixAdd(A, B) ==
    Array([i \in 1..Len(A) |->
              Array([j \in 1..Len(A[i]) |-> Add(A[i][j], Index(B[i], j))])])

transpose(A) ==
    Array([j \in 1..Len(A[1]) |-> Array([i \in 1..Len(A) |-> A[i][j]])])

\* A[0].length and B[0].length throw on an empty array, B[k][j] throws
\* when B has fewer than n rows
matrixMultiplyThrows(A, B) ==
    \/ Len(A) = 0
    \/ Len(B) = 0
    \/ Len(B[1]) > 0 /\ Len(A[1]) > Len(B)

matrixMultiply(A, B) ==
    LET m == Len(A)
        n == Len(A[1])
        p == Len(B[1])
    IN Array([i \in 1..m |-> Array([j \in 1..p |->
           SumSeq([k \in 1..n |->
                      Mul(Index(A[i], k), Index(B[k], j))])])])

matrixVectorMultiply(A, v) ==
    Array([i \in 1..Len(A) |->
              SumSeq([j \in 1..Len(A[i]) |-> Mul(A[i][j], Index(v, j))])])

\* no singularity test at all
BelowPivotTolerance_never(x) == FALSE

\* Math.abs(x) < 1e-12.  With |x| = a/d this is a * 10^12 < d, computed as
\* a * 10^6 <= (d - 1) \div 10^6 to stay inside the integers of the model.
BelowPivotTolerance(x) ==
    /\ isFinite(x)
    /\ AbsInt(x[1]) <= 2147
    /\ AbsInt(x[1]) * 1000000 <= (x[2] - 1) \div 1000000

\* the pivot search of matrixInverse: first row of largest magnitude in
\* column col among rows row..n, starting from the candidate maxRow
RECURSIVE FindPivot(_, _, _, _)
FindPivot(aug, col, row, maxRow) ==
    IF row > Len(aug) THEN maxRow
    ELSE IF Lt(Abs(aug[maxRow][col]), Abs(aug[row][col]))
         THEN FindPivot(aug, col, row + 1, row)
         ELSE FindPivot(aug, col, row + 1, maxRow)

\* only the left halves of the two rows are exchanged: the identity half
\* of the augmented matrix keeps its rows
SwapRows_leftHalf(aug, col, maxRow) ==
    [aug EXCEPT
        ![col] = SubSeq(aug[maxRow], 1, Len(aug))
                    \o SubSeq(aug[col], Len(aug) + 1, 2 * Len(aug)),
        ![maxRow] = SubSeq(aug[col], 1, Len(aug))
                    \o SubSeq(aug[maxRow], Len(aug) + 1, 2 * Len(aug))]

\* [aug[col], aug[maxRow]] = [aug[maxRow], aug[col]]
SwapRows(aug, col, maxRow) ==
    [aug EXCEPT ![col] = aug[maxRow], ![maxRow] = aug[col]]

\* aug[col][j] /= pivot for every j
ScalePivotRow(pivotRow, pivot) ==
    Array([j \in 1..Len(pivotRow) |-> Div(pivotRow[j], pivot)])

\* aug[row][j] -= factor * aug[col][j] for every row but col
EliminateColumn(aug, col, scaledRow) ==
    Array([row \in 1..Len(aug) |->
        IF row = col THEN scaledRow
        ELSE Array([j \in 1..Len(scaledRow) |->
                Sub(aug[row][j], Mul(aug[row][col], scaledRow[j]))])])

\* the elimination loop of matrixInverse from column col on
RECURSIVE Eliminate(_, _)
PivotStep(swapped, col) ==
    IF BelowPivotTolerance(swapped[col][col])
    THEN [singular |-> TRUE, aug |-> swapped]
    ELSE Eliminate(EliminateColumn(swapped, col,
                       ScalePivotRow(swapped[col], swapped[col][col])),
                   col + 1)

Eliminate(aug, col) ==
    IF col > Len(aug) THEN [singular |-> FALSE, aug |-> aug]
    ELSE PivotStep(SwapRows(aug, col, FindPivot(aug, col, col + 1, col)), col)

\* aug[i] = A[i] without the copy: the elimination works on the caller's
\* rows, which end up as the rows of the augmented matrix
matrixInverse_inPlace(A) ==
    LET n == Len(A)
        aug0 == Array([i \in 1..n |->
                    A[i] \o [j \in 1..n |-> IF i = j THEN One ELSE Zero]])
        done == Eliminate(aug0, 1)
    IN [singular |-> done.singular,
        inverse |-> Array([i \in 1..n |->
                              SubSeq(done.aug[i], n + 1, 2 * n)]),
        arg |-> done.aug]

\* matrixInverse(A).  aug is built from copies of the rows of A ([...A[i]]),
\* so the caller's matrix is the same after the call: `arg` is the
\* argument as the call leaves it.
matrixInverse(A) ==
    LET n == Len(A)
        aug0 == Array([i \in 1..n |->
                    A[i] \o [j \in 1..n |-> IF i = j THEN One ELSE Zero]])
        done == Eliminate(aug0, 1)
    IN [singular |-> done.singular,
        inverse |-> Array([i \in 1..n |->
                              SubSeq(done.aug[i], n + 1, 2 * n)]),
        arg |-> A]

-----------------------------------------------------------------------------
(* Utility functions reading the shared model parameters *)

InsufficientObservations ==
    "Need at least 2 observations before landmark (day 120) to make prediction"
SingularMatrix == "Matrix is singular or nearly singular"
NoTimeStandardization == "Time standardization parameters not available"
RegressionNeedsTwo == "Need at least 2 observations for regression"
TypeError == "TypeError"

\* standardizeTime throws when mean or sd is falsy
standardizeTimeThrows ==
    \/ Falsy(model.lme_model.time_standardization.mean)
    \/ Falsy(model.lme_model.time_standardization.sd)

standardizeTime(day) ==
    Div(Sub(day, model.lme_model.time_standardization.mean),
        model.lme_model.time_standardization.sd)

\* the loop never advances: always the first two points
Bracket_stuck(hazardPoints, t, i) == i

\* the bracketing loop of interpolateBaselineHazard (1-based index)
RECURSIVE Bracket(_, _, _)
Bracket(hazardPoints, t, i) ==
    IF i < Len(hazardPoints) /\ Lt(hazardPoints[i + 1].time, t)
    THEN Bracket(hazardPoints, t, i + 1)
    ELSE i

\* the two hazards exchanged
LinearInterpolation_swapped(t, t1, t2, h1, h2) ==
    Add(h2, Div(Mul(Sub(h1, h2), Sub(t, t1)), Sub(t2, t1)))

\* h1 + (h2 - h1) * (targetTime - t1) / (t2 - t1)
LinearInterpolation(t, t1, t2, h1, h2) ==
    Add(h1, Div(Mul(Sub(h2, h1), Sub(t, t1)), Sub(t2, t1)))

\* hazardPoints[0] of an empty table is undefined: reading .time throws
interpolateBaselineHazardThrows == Len(model.cox_model.baseline_hazard) = 0

interpolateBaselineHazard(t) ==
    LET hazardPoints == model.cox_model.baseline_hazard
        last == Len(hazardPoints)
        i == Bracket(hazardPoints, t, 1)
        t1 == hazardPoints[i].time
        t2 == hazardPoints[i + 1].time
        h1 == hazardPoints[i].hazard
        h2 == hazardPoints[i + 1].hazard
    IN IF Le(t, hazardPoints[1].time) THEN hazardPoints[1].hazard
       ELSE IF Le(hazardPoints[last].time, t) THEN hazardPoints[last].hazard
       ELSE LinearInterpolation(t, t1, t2, h1, h2)

-----------------------------------------------------------------------------
(* Main prediction function, exact BLUP (src/dynamicModel.ts:283-385) *)

Error(msg) == [kind |-> "error", message |-> msg]
NoResult == [kind |-> "none"]

\* the filter with day < landmarkTime: the landmark day itself is dropped
IsPreLandmark_strict(obs) ==
    /\ Lt(obs.day, model.metadata.landmark_time_days)
    /\ ~isNaN(obs.log2easix)
    /\ isFinite(obs.log2easix)

\* the filter without the isFinite test: an infinite value passes
IsPreLandmark_noFiniteTest(obs) ==
    /\ Le(obs.day, model.metadata.landmark_time_days)
    /\ ~isNaN(obs.log2easix)

\* the filter predicate of predictDynamicEASIX
IsPreLandmark(obs) ==
    /\ Le(obs.day, model.metadata.landmark_time_days)
    /\ ~isNaN(obs.log2easix)
    /\ isFinite(obs.log2easix)

\* exp(H0 * exp(LP)): the minus sign is missing
SurvivalProbability_noMinus(H0_target, linear_predictor) ==
    Exp(Mul(H0_target, Exp(linear_predictor)))

\* S(t|xL) = exp(-H0(t) * exp(LP))
SurvivalProbability(H0_target, linear_predictor) ==
    Exp(Mul(Neg(H0_target), Exp(linear_predictor)))

\* the survival ignores the linear predictor: S = exp(-H0)
CoxEvaluate_hazardOnly(d, log2easix_at_landmark, slope_at_landmark) ==
    LET cox == model.cox_model.coefficients
        linear_predictor ==
            Add(Add(Mul(cox.dri, d),
                    Mul(cox.log2easix_at_landmark, log2easix_at_landmark)),
                Mul(cox.slope_at_landmark, slope_at_landmark))
        H0_target ==
            interpolateBaselineHazard(model.metadata.prediction_horizon_days)
        survival_2yr == Exp(Neg(H0_target))
        event_rate_2yr_percent == Mul(Sub(One, survival_2yr), Num(100))
    IN IF interpolateBaselineHazardThrows THEN Error(TypeError)
       ELSE [kind |-> "result",
             log2easix_at_landmark |-> log2easix_at_landmark,
             slope_at_landmark |-> slope_at_landmark,
             linear_predictor |-> linear_predictor,
             survival_2yr |-> survival_2yr,
             event_rate_2yr_percent |-> event_rate_2yr_percent]

\* steps 9-12, shared by both implementations: Cox linear predictor,
\* baseline hazard at the horizon, survival and event rate
CoxEvaluate(d, log2easix_at_landmark, slope_at_landmark) ==
    LET cox == model.cox_model.coefficients
        linear_predictor ==
            Add(Add(Mul(cox.dri, d),
                    Mul(cox.log2easix_at_landmark, log2easix_at_landmark)),
                Mul(cox.slope_at_landmark, slope_at_landmark))
        H0_target ==
            interpolateBaselineHazard(model.metadata.prediction_horizon_days)
        survival_2yr == SurvivalProbability(H0_target, linear_predictor)
        event_rate_2yr_percent == Mul(Sub(One, survival_2yr), Num(100))
    IN IF interpolateBaselineHazardThrows THEN Error(TypeError)
       ELSE [kind |-> "result",
             log2easix_at_landmark |-> log2easix_at_landmark,
             slope_at_landmark |-> slope_at_landmark,
             linear_predictor |-> linear_predictor,
             survival_2yr |-> survival_2yr,
             event_rate_2yr_percent |-> event_rate_2yr_percent]

\* The observations argument as a call leaves it: filter() and map() build
\* new arrays and no element is assigned to.
ArgumentAfterCall(observationList) == observationList

\* the standardized landmark is stored back into the shared parameters
ModelAfterCall_written ==
    [model EXCEPT !.metadata.landmark_time_days = standardizeTime(@)]

\* The shared parameters as a call leaves them: `model` and its fields are
\* only read.
ModelAfterCall == model

\* The call returns its outcome; `observations` and `model` are the
\* argument array and the shared parameters as the call leaves them, and
\* `invArg` is the matrix handed to matrixInverse before and after it.
predictDynamicEASIX(observationList, d) ==
    LET landmarkTime == model.metadata.landmark_time_days
        pre == SelectSeq(observationList, IsPreLandmark)
        fe == model.lme_model.fixed_effects
        re == model.lme_model.random_effects
        sigma2 == model.lme_model.residual_variance
        n == Len(pre)
        tStd == Array([i \in 1..n |-> standardizeTime(pre[i].day)])
        expectedVals ==
            Array([i \in 1..n |->
                Add(Add(fe.intercept, Mul(fe.time_slope, tStd[i])),
                    Mul(fe.dri_coefficient, d))])
        residuals ==
            Array([i \in 1..n |-> Sub(pre[i].log2easix, expectedVals[i])])
        Z == Array([i \in 1..n |-> <<One, tStd[i]>>])
        Zt == transpose(Z)
        G == <<<<re.variance_intercept, re.covariance_intercept_slope>>,
               <<re.covariance_intercept_slope, re.variance_slope>>>>
        ZG == matrixMultiply(Z, G)
        ZGZt == matrixMultiply(ZG, Zt)
        sigma2I == scalarMultiply(sigma2, eye(n))
        V == matrixAdd(ZGZt, sigma2I)
        inv == matrixInverse(V)
        Vinv == inv.inverse
        GZt == matrixMultiply(G, Zt)
        GZtVinv == matrixMultiply(GZt, Vinv)
        b_hat == matrixVectorMultiply(GZtVinv, residuals)
        b0 == b_hat[1]
        b1 == b_hat[2]
        landmarkStd == standardizeTime(landmarkTime)
        log2easix_at_landmark ==
            Add(Add(Add(Add(fe.intercept, Mul(fe.time_slope, landmarkStd)),
                        Mul(fe.dri_coefficient, d)),
                    b0),
                Mul(b1, landmarkStd))
        slope_at_landmark == Add(fe.time_slope, b1)
        outcome ==
            IF n < 2 THEN Error(InsufficientObservations)
            ELSE IF standardizeTimeThrows THEN Error(NoTimeStandardization)
            ELSE IF inv.singular THEN Error(SingularMatrix)
            ELSE CoxEvaluate(d, log2easix_at_landmark, slope_at_landmark)
    IN [result |-> outcome,
        preLandmark |-> pre,
        observations |-> ArgumentAfterCall(observationList),
        model |-> ModelAfterCall,
        invArg |-> IF n < 2 \/ standardizeTimeThrows THEN <<>>
                   ELSE <<[before |-> V, after |-> inv.arg]>>]

-----------------------------------------------------------------------------
(* Main prediction function, OLS + shrinkage (src/dynamicModel.ts:572-723) *)

simpleLinearRegression(x, y) ==
    LET n == Len(x)
        sumX == SumSeq(x)
        sumY == SumSeq(y)
        sumXY == SumSeq([i \in 1..n |-> Mul(x[i], y[i])])
        sumX2 == SumSeq([i \in 1..n |-> Mul(x[i], x[i])])
        meanX == Div(sumX, Num(n))
        meanY == Div(sumY, Num(n))
        slope == Div(Sub(sumXY, Mul(Mul(Num(n), meanX), meanY)),
                     Sub(sumX2, Mul(Mul(Num(n), meanX), meanX)))
        intercept == Sub(meanY, Mul(slope, meanX))
    IN [throws |-> n < 2, intercept |-> intercept, slope |-> slope]

\* lines 670-687: the OLS estimates shrunk toward 0, as <<b0, b1>>
ShrunkenEstimates(tStd, residuals, ols) ==
    LET n == Len(tStd)
        re == model.lme_model.random_effects
        sigma2 == model.lme_model.residual_variance
        var_intercept == re.variance_intercept
        shrink_intercept ==
            Div(var_intercept, Add(var_intercept, Div(sigma2, Num(n))))
        var_slope == re.variance_slope
        var_tStd == Div(SumSeq([i \in 1..n |-> Mul(tStd[i], tStd[i])]), Num(n))
        shrink_slope ==
            Div(var_slope,
                Add(var_slope, Div(sigma2, Mul(Num(n), var_tStd))))
    IN <<Mul(ols.intercept, shrink_intercept), Mul(ols.slope, shrink_slope)>>

predictDynamicEASIX_OLS(observationList, d) ==
    LET landmarkTime == model.metadata.landmark_time_days
        pre == SelectSeq(observationList, IsPreLandmark)
        fe == model.lme_model.fixed_effects
        timeStd == model.lme_model.time_standardization
        n == Len(pre)
        tStd == Array([i \in 1..n |-> standardizeTime(pre[i].day)])
        expectedVals ==
            Array([i \in 1..n |->
                Add(Add(fe.intercept, Mul(fe.time_slope, tStd[i])),
                    Mul(fe.dri_coefficient, d))])
        residuals ==
            Array([i \in 1..n |-> Sub(pre[i].log2easix, expectedVals[i])])
        ols == simpleLinearRegression(tStd, residuals)
        b_hat == ShrunkenEstimates(tStd, residuals, ols)
        b0 == b_hat[1]
        b1 == b_hat[2]
        landmarkStd == standardizeTime(landmarkTime)
        log2easix_at_landmark ==
            Add(Add(Add(Add(fe.intercept, Mul(fe.time_slope, landmarkStd)),
                        Mul(fe.dri_coefficient, d)),
                    b0),
                Mul(b1, landmarkStd))
        slope_at_landmark == Div(Add(fe.time_slope, b1), timeStd.sd)
        outcome ==
            IF n < 2 THEN Error(InsufficientObservations)
            ELSE IF standardizeTimeThrows THEN Error(NoTimeStandardization)
            ELSE IF ols.throws THEN Error(RegressionNeedsTwo)
            ELSE CoxEvaluate(d, log2easix_at_landmark, slope_at_landmark)
    IN [result |-> outcome,
        preLandmark |-> pre,
        observations |-> ArgumentAfterCall(observationList),
        model |-> ModelAfterCall,
        invArg |-> <<>>]

-----------------------------------------------------------------------------
(* Model parameters and call arguments *)

MaxObs == 3         \* longest observation list supplied to a call

\* the parameters of the worked scenario
FixtureModel ==
    [metadata |-> [landmark_time_days |-> Num(120),
                   prediction_horizon_days |-> Num(730)],
     lme_model |->
        [fixed_effects |-> [intercept |-> One,
                            time_slope |-> Rat(1, 2),
                            dri_coefficient |-> Rat(4, 5)],
         random_effects |-> [variance_intercept |-> Rat(4, 100),
                             variance_slope |-> Rat(1, 100),
                             covariance_intercept_slope |-> Zero],
         residual_variance |-> Rat(9, 100),
         time_standardization |-> [mean |-> Num(70), sd |-> Num(30)]],
     cox_model |->
        [coefficients |-> [dri |-> Rat(1, 2),
                           log2easix_at_landmark |-> Rat(3, 10),
                           slope_at_landmark |-> Num(2)],
         baseline_hazard |-> <<[time |-> Zero, hazard |-> Zero],
                               [time |-> Num(365), hazard |-> Rat(1, 10)],
                               [time |-> Num(730), hazard |-> Rat(1, 4)]>>]]

\* the same parameters with no residual variance (sigma^2 = 0)
NoResidualModel ==
    [FixtureModel EXCEPT !.lme_model.residual_variance = Zero]

Configs == {FixtureModel, NoResidualModel}

Obs(day, value) == [day |-> day, log2easix |-> value]

ObsPool ==
    {Obs(Num(60), One),             \* the two observations of the scenario
     Obs(Num(90), Rat(7, 5)),
     Obs(Num(120), Num(2)),         \* on the landmark day
     Obs(Num(121), Num(2)),         \* after the landmark
     Obs(Num(90), NaN),             \* no value
     Obs(Num(30), PosInf),          \* infinite value
     Obs(NegInf, One)}              \* non-finite day

DriPool == {Zero, One}

-----------------------------------------------------------------------------
(* The caller: assembles the arguments and calls the engine *)

\* the two implementations of predictDynamicEASIX; which one is in use is
\* fixed when the module is loaded
Engines == {"gls", "ols"}

\* the last two entries of a log after adding one
KeepLastTwo(log, x) ==
    IF Len(log) < 2 THEN Append(log, x) ELSE <<log[2], x>>

\* no interleaved call, matrix primitive call or hook call is in progress
NoInterleavedCalls == patients = <<>> /\ frames = <<>>
NoMatrixCall == matrixCall = <<>>
NoScript == script = <<>>
NoApp ==
    /\ transplantDate = <<>> /\ results = <<>> /\ uploadMessage = <<>>
    /\ upload = <<>>
NoCalculation ==
    /\ labRows = <<>> /\ driSelection = "" /\ calculation = <<>>
    /\ NoApp
    /\ NoScript
NothingElse == NoInterleavedCalls /\ NoMatrixCall /\ NoCalculation

\* the caller has made no call yet
NoCall ==
    /\ observations = <<>>
    /\ dri = Zero
    /\ pc = "ready"
    /\ result = NoResult
    /\ preLandmark = <<>>
    /\ entry = <<>>
    /\ invArg = <<>>
    /\ calls = <<>>

Init ==
    /\ model \in Configs
    /\ engine \in Engines
    /\ observations = <<>>
    /\ dri = Zero
    /\ pc = "ready"
    /\ result = NoResult
    /\ preLandmark = <<>>
    /\ entry = <<>>
    /\ invArg = <<>>
    /\ calls = <<>>
    /\ hazardCalls = <<>>
    /\ NothingElse

\* the caller changes the arguments of the next call; what the previous
\* call left behind is dropped
NewArguments(observationList, d) ==
    /\ observations' = observationList
    /\ dri' = d
    /\ pc' = "ready"
    /\ result' = NoResult
    /\ preLandmark' = <<>>
    /\ entry' = <<>>
    /\ invArg' = <<>>
    /\ calls' = <<>>
    /\ UNCHANGED <<model, engine, hazardCalls, interleavedVars, matrixCall,
                   hookVars, appVars, script>>

AddObservation(obs) ==
    /\ Len(observations) < MaxObs
    /\ NewArguments(Append(observations, obs), dri)

RemoveObservation(i) ==
    /\ i \in 1..Len(observations)
    /\ NewArguments(SubSeq(observations, 1, i - 1)
                       \o SubSeq(observations, i + 1, Len(observations)),
                    dri)

SetDri(d) ==
    /\ d # dri
    /\ NewArguments(observations, d)

\* one call of the engine; r is what the call returns and leaves behind
Call(r) ==
    /\ entry' = <<[observations |-> observations, dri |-> dri,
                   model |-> model]>>
    /\ observations' = r.observations
    /\ model' = r.model
    /\ result' = r.result
    /\ preLandmark' = r.preLandmark
    /\ invArg' = r.invArg
    /\ calls' = KeepLastTwo(calls, r.result)
    /\ pc' = "done"
    /\ UNCHANGED <<dri, engine, hazardCalls, interleavedVars, matrixCall,
                   hookVars, appVars, script>>

Predict ==
    /\ engine = "gls"
    /\ Call(predictDynamicEASIX(observations, dri))

PredictOLS ==
    /\ engine = "ols"
    /\ Call(predictDynamicEASIX_OLS(observations, dri))

Next ==
    \/ \E obs \in ObsPool : AddObservation(obs)
    \/ \E i \in 1..MaxObs : RemoveObservation(i)
    \/ \E d \in DriPool : SetDri(d)
    \/ Predict
    \/ PredictOLS

Spec == Init /\ [][Next]_vars

-----------------------------------------------------------------------------
(* interpolateBaselineHazard on its own: tables and target times *)

MaxPoints == 3      \* longest baseline-hazard table

TimePool == {Zero, Num(365), Num(730), Num(1095)}
HazardPool == {Zero, Rat(1, 10), Rat(1, 4)}
TargetPool == {NegInf, Num(-10), Zero, Num(200), Num(365), Num(500),
               Num(730), Num(1000), Num(1095), PosInf}

Point(t, h) == [time |-> t, hazard |-> h]

StrictlyIncreasingTimes(table) ==
    \A i \in 1..(Len(table) - 1) : Lt(table[i].time, table[i + 1].time)

\* every table of 1..MaxPoints points with strictly increasing times
Tables ==
    {table \in UNION {[1..k -> {Point(t, h) : t \in TimePool, h \in HazardPool}]
                        : k \in 1..MaxPoints} :
        StrictlyIncreasingTimes(table)}

InitHazard ==
    /\ model \in {[FixtureModel EXCEPT !.cox_model.baseline_hazard = table]
                    : table \in Tables}
    /\ engine \in Engines
    /\ observations = <<>>
    /\ dri = Zero
    /\ pc = "ready"
    /\ result = NoResult
    /\ preLandmark = <<>>
    /\ entry = <<>>
    /\ invArg = <<>>
    /\ calls = <<>>
    /\ hazardCalls = <<>>
    /\ NothingElse

Interpolate(t) ==
    /\ ~interpolateBaselineHazardThrows
    /\ hazardCalls' = KeepLastTwo(hazardCalls,
                                  [targetTime |-> t,
                                   H0 |-> interpolateBaselineHazard(t)])
    /\ UNCHANGED <<model, callerVars, engine, calls, interleavedVars,
                   matrixCall, hookVars, appVars, script>>

NextHazard == \E t \in TargetPool : Interpolate(t)

SpecHazard == InitHazard /\ [][NextHazard]_vars

-----------------------------------------------------------------------------
(* Properties of a prediction call *)

Done == pc = "done"
Returned == Done /\ result.kind = "result"

\* an observation that qualifies: day <= landmark_time and a finite value
Qualifies(obs) ==
    /\ obs.log2easix[2] > 0
    /\ Le(obs.day, model.metadata.landmark_time_days)

QualifyingIndices == {i \in 1..Len(observations) : Qualifies(observations[i])}
QualifyingOnly == SelectSeq(observations, Qualifies)

\* C1: a call fails with the insufficient-observations error exactly when
\* fewer than 2 of the supplied observations qualify (day <= landmark_time
\* and finite value); with 2 or more it never raises that error.
C1_InsufficientIffFewerThanTwo ==
    Done => (result = Error(InsufficientObservations)
                <=> Cardinality(QualifyingIndices) < 2)

\* three observations were supplied, one qualifies, the call failed
C1_Witness ==
    /\ Done
    /\ Len(observations) = 3
    /\ Cardinality(QualifyingIndices) = 1
    /\ result = Error(InsufficientObservations)

\* the outcome of the engine that was called on the qualifying observations
OutcomeOnQualifyingOnly ==
    IF engine = "gls" THEN predictDynamicEASIX(QualifyingOnly, dri).result
    ELSE predictDynamicEASIX_OLS(QualifyingOnly, dri).result

\* C2: the observations taking part in a prediction are exactly those with
\* day <= landmark_time and a finite value (day == landmark_time included),
\* and the outcome is the outcome of the call on those observations alone:
\* observations after the landmark or without a finite value change nothing.
C2_ExactlyQualifyingTakePart ==
    Done => /\ preLandmark = QualifyingOnly
            /\ (QualifyingOnly # observations
                   => result = OutcomeOnQualifyingOnly)

\* a returned call that used an observation on the landmark day and was
\* also given observations that do not qualify
C2_Witness ==
    /\ Returned
    /\ \E i \in 1..Len(preLandmark) :
          preLandmark[i].day = model.metadata.landmark_time_days
    /\ Len(preLandmark) < Len(observations)

\* two of the observations share a standardized time
SharedStandardizedTime(obsList) ==
    \E i, j \in 1..Len(obsList) :
        /\ i < j
        /\ isFinite(obsList[i].day)
        /\ Div(Sub(obsList[i].day, model.lme_model.time_standardization.mean),
               model.lme_model.time_standardization.sd)
           = Div(Sub(obsList[j].day, model.lme_model.time_standardization.mean),
                 model.lme_model.time_standardization.sd)

FiniteDays(obsList) == \A i \in 1..Len(obsList) : isFinite(obsList[i].day)

\* C3 as stated: under the exact-GLS strategy a call whose qualifying
\* observations include two with the same standardized time fails with the
\* singular-matrix error.
C3_SharedTimeIsSingular ==
    (Done /\ engine = "gls" /\ FiniteDays(preLandmark)
          /\ SharedStandardizedTime(preLandmark))
        => result = Error(SingularMatrix)

\* C3 amended: with a shared standardized time the exact-GLS call fails with
\* the singular-matrix error when the residual variance is 0, and returns a
\* result with the fixture's residual variance 0.09.
C3_SharedTimeSingularOnlyWithoutResidual ==
    (Done /\ engine = "gls" /\ FiniteDays(preLandmark)
          /\ SharedStandardizedTime(preLandmark))
        => /\ model.lme_model.residual_variance = Zero
                => result = Error(SingularMatrix)
           /\ model.lme_model.residual_variance = Rat(9, 100)
                => result.kind = "result"

\* a shared day under sigma^2 = 0, rejected as singular
C3_Witness ==
    /\ Done /\ engine = "gls"
    /\ FiniteDays(preLandmark) /\ SharedStandardizedTime(preLandmark)
    /\ model.lme_model.residual_variance = Zero
    /\ result = Error(SingularMatrix)

ResultFields(r) ==
    {r.log2easix_at_landmark, r.slope_at_landmark, r.linear_predictor,
     r.survival_2yr, r.event_rate_2yr_percent}

\* C4: a call never returns a partially computed result: it fails, or all
\* five fields of the returned PredictionResult are finite numbers.
C4_NoPartialResult ==
    Returned => \A x \in ResultFields(result) : isFinite(x)

ValidInputs ==
    /\ dri \in {Zero, One}
    /\ FiniteDays(preLandmark)

Within(x, centre, tol) == Le(Abs(Sub(x, centre)), tol)

ScenarioCall ==
    /\ Done /\ engine = "gls"
    /\ model = FixtureModel
    /\ observations = <<Obs(Num(60), One), Obs(Num(90), Rat(7, 5))>>
    /\ dri = One

\* C8: with the fixture parameters, observations [(60,1.0),(90,1.4)] and
\* risk 1 the exact-GLS engine returns value_at_landmark 2.28 +- 0.02,
\* slope_at_landmark 0.48 +- 0.02, linear_predictor 2.15 +- 0.05,
\* survival 0.117 +- 0.01 and event rate 88.3 +- 1.0.
C8_WorkedScenario ==
    ScenarioCall
        => /\ result.kind = "result"
           /\ Within(result.log2easix_at_landmark, Rat(228, 100), Rat(2, 100))
           /\ Within(result.slope_at_landmark, Rat(48, 100), Rat(2, 100))
           /\ Within(result.linear_predictor, Rat(215, 100), Rat(5, 100))
           /\ Within(result.survival_2yr, Rat(117, 1000), Rat(1, 100))
           /\ Within(result.event_rate_2yr_percent, Rat(883, 10), One)

C8_Witness == ScenarioCall /\ result.kind = "result"

-----------------------------------------------------------------------------
(* Properties of interpolateBaselineHazard *)

HazardTable == model.cox_model.baseline_hazard

\* the piecewise-linear function of the table: flat outside the table,
\* linear between the consecutive points with t1 < t <= t2
PiecewiseLinear(table, t) ==
    LET last == Len(table)
        k == CHOOSE k \in 1..(last - 1) :
                Lt(table[k].time, t) /\ Le(t, table[k + 1].time)
    IN IF Le(t, table[1].time) THEN table[1].hazard
       ELSE IF Le(table[last].time, t) THEN table[last].hazard
       ELSE Add(table[k].hazard,
                Div(Mul(Sub(table[k + 1].hazard, table[k].hazard),
                        Sub(t, table[k].time)),
                    Sub(table[k + 1].time, table[k].time)))

\* C6: for every table with strictly increasing times and every t,
\* interpolateBaselineHazard(t) is the first hazard at or before the first
\* table time, the last hazard at or after the last table time, and
\* h1 + (h2 - h1)(t - t1)/(t2 - t1) for the points with t1 < t <= t2.
C6_InterpolationIsPiecewiseLinear ==
    StrictlyIncreasingTimes(HazardTable)
        => \A c \in 1..Len(hazardCalls) :
              hazardCalls[c].H0
                = PiecewiseLinear(HazardTable, hazardCalls[c].targetTime)

\* a target strictly inside the second segment of a three-point table
C6_Witness ==
    /\ Len(HazardTable) = 3
    /\ \E c \in 1..Len(hazardCalls) :
          /\ Lt(HazardTable[2].time, hazardCalls[c].targetTime)
          /\ Lt(hazardCalls[c].targetTime, HazardTable[3].time)
          /\ HazardTable[2].hazard # HazardTable[3].hazard

NonDecreasingHazards(table) ==
    \A i \in 1..(Len(table) - 1) : Le(table[i].hazard, table[i + 1].hazard)

\* C7: for every table with strictly increasing times and non-decreasing
\* hazards, interpolateBaselineHazard is non-decreasing in the target time,
\* returns each table point's hazard at that point's time, and is constant
\* before the first and after the last table time.
C7_InterpolationMonotoneContinuous ==
    (StrictlyIncreasingTimes(HazardTable) /\ NonDecreasingHazards(HazardTable))
        => /\ \A a, b \in 1..Len(hazardCalls) :
                 Le(hazardCalls[a].targetTime, hazardCalls[b].targetTime)
                    => Le(hazardCalls[a].H0, hazardCalls[b].H0)
           /\ \A c \in 1..Len(hazardCalls), k \in 1..Len(HazardTable) :
                 hazardCalls[c].targetTime = HazardTable[k].time
                    => hazardCalls[c].H0 = HazardTable[k].hazard
           /\ \A c \in 1..Len(hazardCalls) :
                 /\ Lt(hazardCalls[c].targetTime, HazardTable[1].time)
                       => hazardCalls[c].H0 = HazardTable[1].hazard
                 /\ Lt(HazardTable[Len(HazardTable)].time,
                       hazardCalls[c].targetTime)
                       => hazardCalls[c].H0
                            = HazardTable[Len(HazardTable)].hazard

\* an interior table time followed by a later target inside the last
\* segment, with a strictly larger hazard
C7_Witness ==
    /\ Len(HazardTable) = 3 /\ NonDecreasingHazards(HazardTable)
    /\ Len(hazardCalls) = 2
    /\ hazardCalls[1].targetTime = HazardTable[2].time
    /\ Lt(HazardTable[2].time, hazardCalls[2].targetTime)
    /\ Lt(hazardCalls[2].targetTime, HazardTable[3].time)
    /\ Lt(hazardCalls[1].H0, hazardCalls[2].H0)

-----------------------------------------------------------------------------
(* Interleaved prediction calls (src/dynamicModel.ts:283-385).  Each call *)
(* advances through the statements of predictDynamicEASIX; the steps of   *)
(* different calls are taken in any order.                                 *)

Patients == {"a", "b"}

\* the arguments of the calls made for the patients
ArgumentPool ==
    {[observations |-> <<Obs(Num(60), One), Obs(Num(90), Rat(7, 5))>>,
      dri |-> One],
     [observations |-> <<Obs(Num(60), One), Obs(Num(121), Num(2)),
                         Obs(Num(120), Num(2)), Obs(Num(90), Rat(7, 5))>>,
      dri |-> Zero],
     [observations |-> <<Obs(Num(90), Rat(7, 5)), Obs(Num(90), One),
                         Obs(Num(60), One)>>,
      dri |-> One],
     [observations |-> <<Obs(Num(120), Num(2)), Obs(Num(30), PosInf)>>,
      dri |-> Zero]}

\* the constants of a call that no statement has assigned yet
EmptyFrame ==
    [preLandmark |-> <<>>, tStd |-> <<>>, residuals |-> <<>>, V |-> <<>>,
     Vinv |-> <<>>, b_hat |-> <<>>, log2easix_at_landmark |-> Undefined,
     slope_at_landmark |-> Undefined]

\* every call works on the frame of the other
CallFrame_shared(p) == "a"

\* The constants of predictDynamicEASIX (preLandmark, tStd, V, ...) are
\* created by each invocation: the frame of the call made for patient p.
CallFrame(p) == p

\* lines 287-297: the filter and the count test
FilterStatement(args, frame) ==
    LET pre == SelectSeq(args.observations, IsPreLandmark)
    IN IF Len(pre) < 2
       THEN [pc |-> "returned", result |-> Error(InsufficientObservations),
             frame |-> frame]
       ELSE [pc |-> "filtered", result |-> NoResult,
             frame |-> [frame EXCEPT !.preLandmark = pre]]

\* lines 299-318: standardized times, expected values and residuals
ResidualStatement(args, frame) ==
    LET fe == model.lme_model.fixed_effects
        pre == frame.preLandmark
        tStd == Array([i \in 1..Len(pre) |-> standardizeTime(pre[i].day)])
        residuals ==
            Array([i \in 1..Len(pre) |->
                Sub(pre[i].log2easix,
                    Add(Add(fe.intercept, Mul(fe.time_slope, tStd[i])),
                        Mul(fe.dri_coefficient, args.dri)))])
    IN IF standardizeTimeThrows
       THEN [pc |-> "returned", result |-> Error(NoTimeStandardization),
             frame |-> frame]
       ELSE [pc |-> "standardized", result |-> NoResult,
             frame |-> [frame EXCEPT !.tStd = tStd, !.residuals = residuals]]

\* G of lines 328-331
RandomEffectsCovariance ==
    LET re == model.lme_model.random_effects
    IN <<<<re.variance_intercept, re.covariance_intercept_slope>>,
         <<re.covariance_intercept_slope, re.variance_slope>>>>

\* Z with the columns exchanged: rows [t_i, 1]
DesignMatrix_swapped(tStd) == Array([i \in 1..Len(tStd) |-> <<tStd[i], One>>])

\* Z of line 322
DesignMatrix(tStd) == Array([i \in 1..Len(tStd) |-> <<One, tStd[i]>>])

\* lines 320-338: V = Z*G*Z' + sigma^2*I
VarianceStatement(args, frame) ==
    LET Z == DesignMatrix(frame.tStd)
        ZG == matrixMultiply(Z, RandomEffectsCovariance)
        ZGZt == matrixMultiply(ZG, transpose(Z))
        sigma2I == scalarMultiply(model.lme_model.residual_variance,
                                  eye(Len(frame.tStd)))
    IN [pc |-> "built", result |-> NoResult,
        frame |-> [frame EXCEPT !.V = matrixAdd(ZGZt, sigma2I)]]

\* line 342: Vinv = matrixInverse(V)
InverseStatement(args, frame) ==
    LET inv == matrixInverse(frame.V)
    IN IF inv.singular
       THEN [pc |-> "returned", result |-> Error(SingularMatrix),
             frame |-> frame]
       ELSE [pc |-> "inverted", result |-> NoResult,
             frame |-> [frame EXCEPT !.Vinv = inv.inverse]]

\* lines 343-359: the BLUP and the projection to the landmark
BlupStatement(args, frame) ==
    LET fe == model.lme_model.fixed_effects
        GZt == matrixMultiply(RandomEffectsCovariance,
                              transpose(DesignMatrix(frame.tStd)))
        b_hat == matrixVectorMultiply(matrixMultiply(GZt, frame.Vinv),
                                      frame.residuals)
        landmarkStd == standardizeTime(model.metadata.landmark_time_days)
    IN [pc |-> "estimated", result |-> NoResult,
        frame |-> [frame EXCEPT
            !.b_hat = b_hat,
            !.log2easix_at_landmark =
                Add(Add(Add(Add(fe.intercept,
                                Mul(fe.time_slope, landmarkStd)),
                            Mul(fe.dri_coefficient, args.dri)),
                        b_hat[1]),
                    Mul(b_hat[2], landmarkStd)),
            !.slope_at_landmark = Add(fe.time_slope, b_hat[2])]]

\* the Cox evaluation with the landmark value and the slope exchanged
CoxStatement_swapped(args, frame) ==
    [pc |-> "returned",
     result |-> CoxEvaluate(args.dri, frame.slope_at_landmark,
                            frame.log2easix_at_landmark),
     frame |-> frame]

\* lines 361-384: the Cox evaluation and the return
CoxStatement(args, frame) ==
    [pc |-> "returned",
     result |-> CoxEvaluate(args.dri, frame.log2easix_at_landmark,
                            frame.slope_at_landmark),
     frame |-> frame]

\* the next statement of a call at position pc
Statement(position, args, frame) ==
    CASE position = "called" -> FilterStatement(args, frame)
      [] position = "filtered" -> ResidualStatement(args, frame)
      [] position = "standardized" -> VarianceStatement(args, frame)
      [] position = "built" -> InverseStatement(args, frame)
      [] position = "inverted" -> BlupStatement(args, frame)
      [] position = "estimated" -> CoxStatement(args, frame)

InitInterleaved ==
    /\ model \in Configs
    /\ engine = "gls"
    /\ NoCall
    /\ hazardCalls = <<>>
    /\ patients \in [Patients -> {[args |-> a, pc |-> "called",
                                   result |-> NoResult] : a \in ArgumentPool}]
    /\ frames = [p \in Patients |-> EmptyFrame]
    /\ NoMatrixCall
    /\ NoCalculation

\* the call made for patient p executes its next statement
Step(p) ==
    /\ patients[p].pc # "returned"
    /\ LET after == Statement(patients[p].pc, patients[p].args,
                              frames[CallFrame(p)])
       IN /\ patients' = [patients EXCEPT ![p].pc = after.pc,
                                          ![p].result = after.result]
          /\ frames' = [frames EXCEPT ![CallFrame(p)] = after.frame]
    /\ model' = ModelAfterCall
    /\ UNCHANGED <<callerVars, engine, calls, hazardCalls, matrixCall,
                   hookVars, appVars, script>>

NextInterleaved == \E p \in Patients : Step(p)

SpecInterleaved == InitInterleaved /\ [][NextInterleaved]_vars

\* the parameters the interleaved calls started with: no statement assigns
\* to `model`, so it is one of the loaded configurations
ModelAsLoaded == model \in Configs

\* C11: interleaved calls are independent: whatever the order of their
\* statements, each call returns what predictDynamicEASIX returns for its
\* arguments when run alone, and the shared parameters are never written.
C11_InterleavedCallsIndependent ==
    /\ ModelAsLoaded
    /\ \A p \in Patients :
          patients[p].pc = "returned"
             => patients[p].result
                  = predictDynamicEASIX(patients[p].args.observations,
                                        patients[p].args.dri).result

\* the call for b has returned a result while the call for a, made with
\* other arguments, has inverted its V and not yet returned
C11_Witness ==
    /\ patients["a"].pc = "inverted"
    /\ patients["b"].pc = "returned"
    /\ patients["b"].result.kind = "result"
    /\ patients["a"].args # patients["b"].args

-----------------------------------------------------------------------------
(* Malformed parameter documents.  `const model = modelCoefficients as     *)
(* ModelParameters` (line 80) is a type cast: the document is loaded as it *)
(* is, and the first statement that looks at a field is inside a call.     *)

\* time_standardization without mean, or without sd (both are optional
\* fields of TimeStandardization)
NoMeanModel ==
    [FixtureModel EXCEPT !.lme_model.time_standardization.mean = Undefined]
NoSdModel ==
    [FixtureModel EXCEPT !.lme_model.time_standardization.sd = Undefined]

\* an empty baseline-hazard table, and one whose times are not increasing
EmptyTableModel == [FixtureModel EXCEPT !.cox_model.baseline_hazard = <<>>]
UnorderedTableModel ==
    [FixtureModel EXCEPT !.cox_model.baseline_hazard =
        <<[time |-> Num(365), hazard |-> Rat(1, 10)],
          [time |-> Zero, hazard |-> Zero],
          [time |-> Num(730), hazard |-> Rat(1, 4)]>>]

MalformedConfigs ==
    {NoMeanModel, NoSdModel, EmptyTableModel, UnorderedTableModel}

\* the observations supplied to calls on a malformed document
StartupObsPool ==
    {Obs(Num(60), One), Obs(Num(90), Rat(7, 5)), Obs(Num(121), Num(2))}

InitStartup ==
    /\ model \in MalformedConfigs
    /\ engine \in Engines
    /\ NoCall
    /\ hazardCalls = <<>>
    /\ NothingElse

NextStartup ==
    \/ \E obs \in StartupObsPool : AddObservation(obs)
    \/ \E i \in 1..MaxObs : RemoveObservation(i)
    \/ \E d \in DriPool : SetDri(d)
    \/ Predict
    \/ PredictOLS

SpecStartup == InitStartup /\ [][NextStartup]_vars

\* C12: on a configuration without the time-standardization mean or sd no
\* call ends with a result or with the insufficient-observations error:
\* the configuration is rejected before any prediction is evaluated.
C12_MissingStandardizationRejectedFirst ==
    (Done /\ standardizeTimeThrows)
        => /\ result.kind = "error"
           /\ result.message # InsufficientObservations

ValidHazardTable(table) ==
    /\ Len(table) > 0
    /\ \A i \in 1..(Len(table) - 1) : Le(table[i].time, table[i + 1].time)

\* C13: a baseline-hazard table that is empty or whose times are not
\* increasing is rejected: no call evaluated on it returns a result.
C13_InvalidHazardTableRejected ==
    Returned => ValidHazardTable(model.cox_model.baseline_hazard)

-----------------------------------------------------------------------------
(* The days of the observations a call works on *)

\* C14: every observation taking part in the BLUP has a finite,
\* non-negative day not after the landmark.
C14_ParticipantsHaveValidDay ==
    Done => \A i \in 1..Len(preLandmark) :
               /\ isFinite(preLandmark[i].day)
               /\ Le(Zero, preLandmark[i].day)
               /\ Le(preLandmark[i].day, model.metadata.landmark_time_days)

-----------------------------------------------------------------------------
(* The Cox evaluation on its own (src/dynamicModel.ts:361-384): linear     *)
(* predictor, baseline hazard at the horizon, survival and event rate      *)

\* parameters whose table gives H0 = 1/4, 1/10 and 0 at the horizon
HorizonModels ==
    {FixtureModel,
     [FixtureModel EXCEPT !.metadata.prediction_horizon_days = Num(365)],
     [FixtureModel EXCEPT !.cox_model.baseline_hazard =
         <<[time |-> Num(730), hazard |-> Zero],
           [time |-> Num(1095), hazard |-> Rat(1, 10)]>>]}

\* landmark values and slopes handed to the Cox evaluation
LandmarkValuePool == {Zero, Num(2), Rat(137, 60)}
LandmarkSlopePool == {Zero, Rat(781, 1620), One}

InitSurvival ==
    /\ model \in HorizonModels
    /\ engine = "gls"
    /\ NoCall
    /\ hazardCalls = <<>>
    /\ NothingElse

EvaluateCox(d, log2easix_at_landmark, slope_at_landmark) ==
    /\ calls' = KeepLastTwo(calls,
                    CoxEvaluate(d, log2easix_at_landmark, slope_at_landmark))
    /\ UNCHANGED <<model, callerVars, engine, hazardCalls, interleavedVars,
                   matrixCall, hookVars, appVars, script>>

NextSurvival ==
    \E d \in DriPool, l \in LandmarkValuePool, s \in LandmarkSlopePool :
        EvaluateCox(d, l, s)

SpecSurvival == InitSurvival /\ [][NextSurvival]_vars

\* the baseline hazard at the horizon under the current parameters
HazardAtHorizon ==
    interpolateBaselineHazard(model.metadata.prediction_horizon_days)

-----------------------------------------------------------------------------
(* The matrix primitives on their own (src/dynamicModel.ts:92-224)         *)

\* a matrix of numbers from rows of integers
Mat(rows) ==
    Array([i \in 1..Len(rows) |->
              Array([j \in 1..Len(rows[i]) |-> Num(rows[i][j])])])

MatrixPool ==
    {Mat(<<<<2>>>>),
     Mat(<<<<0>>>>),
     Mat(<<<<1, 2>>>>),
     Mat(<<<<1>>, <<2>>>>),
     Mat(<<<<1, 2>>, <<3, 4>>>>),
     Mat(<<<<1, 2>>, <<2, 4>>>>),
     Mat(<<<<0, 1>>, <<1, 0>>>>),
     Mat(<<<<1, 0, 2>>, <<0, 1, 1>>>>),
     Mat(<<<<1, 0>>, <<0, 1>>, <<2, 1>>>>),
     Mat(<<<<2, 1, 0>>, <<1, 2, 1>>, <<0, 1, 2>>>>),
     Mat(<<<<0, 2, 1>>, <<1, 1, 0>>, <<1, 3, 1>>>>),
     Mat(<<<<0, 1, 2>>, <<1, 0, 3>>, <<4, -3, 8>>>>),
     Mat(<<<<-18, -251, -961>>, <<63, 967, 887>>, <<45, 716, -74>>>>)}

VectorPool == {<<One>>, <<One, Num(2)>>, <<One, Num(2), Num(3)>>}
ScalarPool == {Zero, Rat(9, 100), Num(-2)}
SizePool == 0..3

IsSquare(A) == \A i \in 1..Len(A) : Len(A[i]) = Len(A)

\* what a call of a primitive gives back: a value, or the error thrown
Value(v) == [kind |-> "value", value |-> v]

InitMatrix ==
    /\ model = FixtureModel
    /\ engine = "gls"
    /\ NoCall
    /\ hazardCalls = <<>>
    /\ NoInterleavedCalls
    /\ matrixCall = <<>>
    /\ NoCalculation

MatrixCall(op, A, B, outcome) ==
    /\ matrixCall' = <<[op |-> op, A |-> A, B |-> B, outcome |-> outcome]>>
    /\ UNCHANGED <<model, callerVars, engine, calls, hazardCalls,
                   interleavedVars, hookVars, appVars, script>>

CallEye(n) == MatrixCall("eye", n, <<>>, Value(eye(n)))

CallScalarMultiply(scalar, A) ==
    MatrixCall("scalarMultiply", scalar, A, Value(scalarMultiply(scalar, A)))

CallMatrixAdd(A, B) ==
    MatrixCall("matrixAdd", A, B,
               IF matrixAddThrows(A, B) THEN Error(TypeError)
               ELSE Value(matrixAdd(A, B)))

CallTranspose(A) == MatrixCall("transpose", A, <<>>, Value(transpose(A)))

CallMatrixMultiply(A, B) ==
    MatrixCall("matrixMultiply", A, B,
               IF matrixMultiplyThrows(A, B) THEN Error(TypeError)
               ELSE Value(matrixMultiply(A, B)))

CallMatrixVectorMultiply(A, v) ==
    MatrixCall("matrixVectorMultiply", A, v, Value(matrixVectorMultiply(A, v)))

CallMatrixInverse(A) ==
    /\ IsSquare(A)
    /\ MatrixCall("matrixInverse", A, <<>>,
                  LET inv == matrixInverse(A)
                  IN IF inv.singular THEN Error(SingularMatrix)
                     ELSE Value(inv.inverse))

NextMatrix ==
    \/ \E n \in SizePool : CallEye(n)
    \/ \E scalar \in ScalarPool, A \in MatrixPool :
          CallScalarMultiply(scalar, A)
    \/ \E A, B \in MatrixPool : CallMatrixAdd(A, B)
    \/ \E A \in MatrixPool : CallTranspose(A)
    \/ \E A, B \in MatrixPool : CallMatrixMultiply(A, B)
    \/ \E A \in MatrixPool, v \in VectorPool : CallMatrixVectorMultiply(A, v)
    \/ \E A \in MatrixPool : CallMatrixInverse(A)

SpecMatrix == InitMatrix /\ [][NextMatrix]_vars

Rows(A) == Len(A)
Cols(A) == Len(A[1])
HasShape(M, r, c) == Len(M) = r /\ \A i \in 1..Len(M) : Len(M[i]) = c

\* the call returned a matrix of r rows and c columns
ReturnedShape(call, r, c) ==
    call.outcome.kind = "value" /\ HasShape(call.outcome.value, r, c)

Threw(call) == call.outcome.kind = "error"

\* C17: matrixAdd on different shapes and matrixMultiply on different inner
\* dimensions fail with an error instead of returning a matrix, and on
\* compatible dimensions matrixMultiply, transpose, matrixAdd,
\* scalarMultiply and eye(n) return a result of the expected shape.
C17_NoSilentDimensionMismatch ==
    \A k \in 1..Len(matrixCall) :
        LET call == matrixCall[k]
        IN /\ call.op = "matrixAdd"
                => IF Rows(call.A) = Rows(call.B) /\ Cols(call.A) = Cols(call.B)
                   THEN ReturnedShape(call, Rows(call.A), Cols(call.A))
                   ELSE Threw(call)
           /\ call.op = "matrixMultiply"
                => IF Cols(call.A) = Rows(call.B)
                   THEN ReturnedShape(call, Rows(call.A), Cols(call.B))
                   ELSE Threw(call)
           /\ call.op = "transpose"
                => ReturnedShape(call, Cols(call.A), Rows(call.A))
           /\ call.op = "scalarMultiply"
                => ReturnedShape(call, Rows(call.B), Cols(call.B))
           /\ call.op = "eye" => ReturnedShape(call, call.A, call.A)

\* determinant of a square matrix of at most three rows, in the exact
\* arithmetic of the model
Det(A) ==
    CASE Len(A) = 1 -> A[1][1]
      [] Len(A) = 2 -> Sub(Mul(A[1][1], A[2][2]), Mul(A[1][2], A[2][1]))
      [] Len(A) = 3 ->
            Add(Sub(Mul(A[1][1], Sub(Mul(A[2][2], A[3][3]),
                                     Mul(A[2][3], A[3][2]))),
                    Mul(A[1][2], Sub(Mul(A[2][1], A[3][3]),
                                     Mul(A[2][3], A[3][1])))),
                Mul(A[1][3], Sub(Mul(A[2][1], A[3][2]),
                                 Mul(A[2][2], A[3][1]))))

-----------------------------------------------------------------------------
(* useEasixCalculation (src/unnamed/part_001): lab rows to points, the     *)
(* OLS fit, the day +90 classification and the landmark prediction         *)

MaxRows == 3        \* longest labRows list handed to the hook

Null == <<0, -2>>   \* the value null of a number | null field

EPS == Rat(1, 1000000000)
DAY_RANGE == [min |-> Num(20), max |-> Num(120)]

\* x > EPS for a number of the model (numerator and denominator below 2^31)
ExceedsEPS(x) ==
    IF isNaN(x) \/ x[1] <= 0 THEN FALSE
    ELSE IF x[2] = 0 \/ x[1] >= 3 THEN TRUE
    ELSE x[1] * 1000000000 > x[2]

\* Math.max(x, EPS)
MaxWithEPS(x) == IF isNaN(x) THEN NaN ELSE IF ExceedsEPS(x) THEN x ELSE EPS

\* A string is the sequence of its characters.
Digits == <<"0", "1", "2", "3", "4", "5", "6", "7", "8", "9">>
IsDigit(c) == \E k \in 1..10 : Digits[k] = c
DigitValue(c) == (CHOOSE k \in 1..10 : Digits[k] = c) - 1

\* the first index at or after i that holds no digit
RECURSIVE DigitRun(_, _)
DigitRun(s, i) ==
    IF i <= Len(s) /\ IsDigit(s[i]) THEN DigitRun(s, i + 1) ELSE i

\* the first index at or after i that holds no white space
RECURSIVE SkipSpaces(_, _)
SkipSpaces(s, i) ==
    IF i <= Len(s) /\ s[i] = " " THEN SkipSpaces(s, i + 1) ELSE i

\* the decimal value of the digits s[from..to-1]
RECURSIVE DecimalValue(_, _, _)
DecimalValue(s, from, to) ==
    IF to <= from THEN 0
    ELSE 10 * DecimalValue(s, from, to - 1) + DigitValue(s[to - 1])

RECURSIVE Pow10(_)
Pow10(k) == IF k = 0 THEN 1 ELSE 10 * Pow10(k - 1)

\* parseFloat: leading white space, an optional sign, digits, an optional
\* decimal point and digits; what follows is ignored, and a string with no
\* digit there gives NaN.  Exponents and "Infinity" are not modelled.
parseFloat(s) ==
    LET first == SkipSpaces(s, 1)
        signed == first <= Len(s) /\ (s[first] = "-" \/ s[first] = "+")
        start == IF signed THEN first + 1 ELSE first
        intEnd == DigitRun(s, start)
        hasPoint == intEnd <= Len(s) /\ s[intEnd] = "."
        fracEnd == IF hasPoint THEN DigitRun(s, intEnd + 1) ELSE intEnd
        fracLen == IF hasPoint THEN fracEnd - (intEnd + 1) ELSE 0
        magnitude ==
            Rat(DecimalValue(s, start, intEnd) * Pow10(fracLen)
                    + DecimalValue(s, intEnd + 1, fracEnd),
                Pow10(fracLen))
    IN IF intEnd = start /\ fracLen = 0 THEN NaN
       ELSE IF signed /\ s[first] = "-" THEN Neg(magnitude)
       ELSE magnitude

\* isNumeric of a number: not null, undefined or '' and not NaN
isNumeric(val) == val # Null /\ val # Undefined /\ ~isNaN(val)

\* floor(log2(n/d)) for n, d > 0
RECURSIVE FloorLog2(_, _)
FloorLog2(n, d) ==
    IF n >= 2 * d THEN FloorLog2(n, 2 * d) + 1
    ELSE IF n < d THEN FloorLog2(2 * n, d) - 1
    ELSE 0

RECURSIVE Pow2(_)
Pow2(k) == IF k = 0 THEN 1 ELSE 2 * Pow2(k - 1)

\* the first k binary digits of log2(y), y in [1, 2) held as floor(y * 2^14)
RECURSIVE LogBits(_, _)
LogBits(y, k) ==
    IF k = 0 THEN 0
    ELSE LET sq == (y * y) \div 16384
         IN IF sq >= 32768
            THEN Pow2(k - 1) + LogBits(sq \div 2, k - 1)
            ELSE LogBits(sq, k - 1)

\* Math.log(x) / Math.log(2) is modelled in fixed point: log2(x) rounded
\* down to 1/256 (exact on the powers of two).
Log2(x) ==
    IF isNaN(x) \/ x[1] < 0 THEN NaN
    ELSE IF x[1] = 0 THEN NegInf
    ELSE IF x[2] = 0 THEN PosInf
    ELSE LET e == FloorLog2(x[1], x[2])
             y == IF e >= 0 THEN (x[1] * 16384) \div (x[2] * Pow2(e))
                  ELSE (x[1] * Pow2(-e) * 16384) \div x[2]
         IN Rat(e * 256 + LogBits(y, 8), 256)

\* Math.round of a finite number: floor(x + 1/2)
MathRound(x) ==
    IF ~isFinite(x) THEN x ELSE Num((2 * x[1] + x[2]) \div (2 * x[2]))

\* the DRI values of the selector; '' is no selection
HighVeryHigh == "High-Very High"
LowIntermediate == "Low-Intermediate"

encodeDri(value) ==
    IF value = HighVeryHigh THEN One
    ELSE IF value = LowIntermediate THEN Zero
    ELSE Null

NoPoint == [kind |-> "null"]

\* one lab row to a point, or null
RowToPoint(row) ==
    LET day == parseFloat(row.day)
        ldh == parseFloat(row.ldh)
        cr == parseFloat(row.creatinine)
        plt == parseFloat(row.platelets)
        easix == Div(Mul(ldh, cr), MaxWithEPS(plt))
    IN IF ~(\A v \in {day, ldh, cr, plt} : isNumeric(v) /\ Le(Zero, v))
       THEN NoPoint
       ELSE IF Le(easix, Zero) THEN NoPoint
       ELSE [kind |-> "point", day |-> day, easix |-> easix,
             log2Easix |-> Log2(easix)]

\* the filter after the map: inside the day window, log2Easix finite
InWindow(p) ==
    /\ p # NoPoint
    /\ Le(DAY_RANGE.min, p.day)
    /\ Le(p.day, DAY_RANGE.max)
    /\ isFinite(p.log2Easix)

\* Array.prototype.sort by day: stable insertion
RECURSIVE InsertByDay(_, _)
InsertByDay(sorted, p) ==
    IF sorted = <<>> THEN <<p>>
    ELSE IF Lt(p.day, sorted[Len(sorted)].day)
         THEN Append(InsertByDay(SubSeq(sorted, 1, Len(sorted) - 1), p),
                     sorted[Len(sorted)])
         ELSE Append(sorted, p)

RECURSIVE SortByDay(_)
SortByDay(points) ==
    IF points = <<>> THEN <<>>
    ELSE InsertByDay(SortByDay(SubSeq(points, 1, Len(points) - 1)),
                     points[Len(points)])

\* steps 1 and 2: the sorted points of the lab rows
LabPoints(rows) ==
    SortByDay(SelectSeq(Array([i \in 1..Len(rows) |-> RowToPoint(rows[i])]),
                        InWindow))

\* the classification notes (the templates without the values filled in)
NoteNeedTwo == "Need at least 2 valid points between day +20 and +120."
NoteSameDay == "Cannot compute slope: all data points have the same day."
NoteLegacy == "Legacy comparison: predicted log2(EASIX) at day +90"
NoteSinglePoint == "Classification is based on a single data point near day +90"
NoteSingleFar ==
    "A single data point exists, but it is not within +-10 days of day +90."
NoteEligible == "Inputs eligible for landmark prediction"
NoteSelectDri ==
    "Select a Disease Risk Index category to unlock the 2-year event rate output."

CutPoint == Rat(232, 100)

\* the comparison with the cut-point turned round
Classify_below(predictedDay90) ==
    IF Le(predictedDay90, CutPoint) THEN "High" ELSE "Low"

\* predictedDay90 >= 2.32 ? 'High' : 'Low'
Classify(predictedDay90) ==
    IF Le(CutPoint, predictedDay90) THEN "High" ELSE "Low"

\* the engine the hook imports
DynamicPrediction(obsList, d) ==
    IF engine = "gls" THEN predictDynamicEASIX(obsList, d).result
    ELSE predictDynamicEASIX_OLS(obsList, d).result

\* the three landmark fields left null; note "" leaves the note as it is
NullOutputs(note) ==
    [eventRate2yr |-> Null, slopeAtLandmark |-> Null,
     log2easixAtLandmark |-> Null, note |-> note]

\* lines 108-114: the fields taken from the engine's result; in the catch
\* block the error is logged and the three fields stay null
LandmarkFields(dynamicResult) ==
    IF dynamicResult.kind = "result"
    THEN [eventRate2yr |-> dynamicResult.event_rate_2yr_percent,
          slopeAtLandmark |-> dynamicResult.slope_at_landmark,
          log2easixAtLandmark |-> dynamicResult.log2easix_at_landmark,
          note |-> NoteEligible]
    ELSE NullOutputs("")

\* lines 102-105: the observations handed to the engine, log2easix
\* rounded to two decimal places
Observations(labPoints) ==
    Array([i \in 1..Len(labPoints) |->
        Obs(labPoints[i].day,
            Div(MathRound(Mul(labPoints[i].log2Easix, Num(100))),
                Num(100)))])

\* the landmark prediction without the driIndicator test
LandmarkOutputs_anyDri(labPoints, driIndicator) ==
    IF Len(labPoints) >= 2
    THEN LandmarkFields(
             DynamicPrediction(Observations(labPoints),
                               IF driIndicator = Null THEN Zero
                               ELSE driIndicator))
    ELSE NullOutputs("")

\* lines 99-117: the landmark prediction
LandmarkOutputs(labPoints, driIndicator) ==
    IF Len(labPoints) >= 2 /\ driIndicator # Null
    THEN LandmarkFields(
             DynamicPrediction(Observations(labPoints), driIndicator))
    ELSE IF Len(labPoints) >= 2 THEN NullOutputs(NoteSelectDri)
    ELSE NullOutputs("")

\* lines 60-79: the OLS fit; slope and intercept stay null on one day
Fit(labPoints) ==
    LET n == Len(labPoints)
        Sx == SumSeq([i \in 1..n |-> labPoints[i].day])
        Sy == SumSeq([i \in 1..n |-> labPoints[i].log2Easix])
        Sxx == SumSeq([i \in 1..n |-> Mul(labPoints[i].day, labPoints[i].day)])
        Sxy == SumSeq([i \in 1..n |->
                          Mul(labPoints[i].day, labPoints[i].log2Easix)])
        denominator == Sub(Mul(Num(n), Sxx), Mul(Sx, Sx))
        slope == Div(Sub(Mul(Num(n), Sxy), Mul(Sx, Sy)), denominator)
        intercept == Sub(Div(Sy, Num(n)), Mul(slope, Div(Sx, Num(n))))
    IN IF n >= 2 /\ ExceedsEPS(Abs(denominator))
       THEN [slope |-> slope, intercept |-> intercept, note |-> NoteNeedTwo]
       ELSE IF n >= 2
       THEN [slope |-> Null, intercept |-> Null, note |-> NoteSameDay]
       ELSE [slope |-> Null, intercept |-> Null, note |-> NoteNeedTwo]

\* lines 81-97: predictions and classification
Stratify(labPoints, fit) ==
    LET n == Len(labPoints)
    IN IF fit.slope # Null /\ fit.intercept # Null
       THEN LET predictedDay90 == Add(fit.intercept, Mul(fit.slope, Num(90)))
            IN [predictedDay90 |-> predictedDay90,
                predictedDay120 |->
                    Add(fit.intercept, Mul(fit.slope, Num(120))),
                classification |-> Classify(predictedDay90),
                note |-> NoteLegacy]
       ELSE IF n = 1
       THEN IF Le(Abs(Sub(labPoints[1].day, Num(90))), Num(10))
            THEN [predictedDay90 |-> labPoints[1].log2Easix,
                  predictedDay120 |-> Null,
                  classification |-> Classify(labPoints[1].log2Easix),
                  note |-> NoteSinglePoint]
            ELSE [predictedDay90 |-> Null, predictedDay120 |-> Null,
                  classification |-> "Insufficient Data",
                  note |-> NoteSingleFar]
       ELSE [predictedDay90 |-> Null, predictedDay120 |-> Null,
             classification |-> "Insufficient Data", note |-> fit.note]

\* lines 119-130: the CalculationResult returned
CalculationResult(labPoints, fit, strata, landmark) ==
    [points |-> labPoints,
     slope |-> fit.slope,
     intercept |-> fit.intercept,
     predictedDay90 |-> strata.predictedDay90,
     predictedDay120 |-> strata.predictedDay120,
     classification |-> strata.classification,
     classificationNote |->
         IF landmark.note # "" THEN landmark.note ELSE strata.note,
     eventRate2yr |-> landmark.eventRate2yr,
     slopeAtLandmark |-> landmark.slopeAtLandmark,
     log2easixAtLandmark |-> landmark.log2easixAtLandmark]

\* lines 81-97 follow the fit
Classified(labPoints, fit, landmark) ==
    CalculationResult(labPoints, fit, Stratify(labPoints, fit), landmark)

\* the body of the hook on the sorted points
Calculate(labPoints, driIndicator) ==
    Classified(labPoints, Fit(labPoints),
               LandmarkOutputs(labPoints, driIndicator))

useEasixCalculation(rows, selection) ==
    Calculate(LabPoints(rows), encodeDri(selection))

LabRow(day, ldh, creatinine, platelets) ==
    [day |-> day, ldh |-> ldh, creatinine |-> creatinine,
     platelets |-> platelets]

\* the lab rows a user enters; a row with platelets 0 has LDH 0, since
\* LDH x creatinine / 1e-9 is beyond the integers of the model
RowPool ==
    {LabRow(<<"3", "0">>, <<"2", "0", "0">>, <<"1">>, <<"2", "0", "0">>),
     LabRow(<<" ", "6", "0">>, <<"4", "0", "0">>, <<"2">>,
            <<"1", "0", "0", "K">>),
     LabRow(<<"9", "0">>, <<"2", "5", "0">>, <<"1", ".", "2">>, <<"6", "0">>),
     LabRow(<<"1", "3", "0">>, <<"4", "0", "0">>, <<"2">>, <<"1", "0", "0">>),
     LabRow(<<"4", "5">>, <<"-", "5">>, <<"1">>, <<>>),
     LabRow(<<"4", "5">>, <<"0">>, <<"1">>, <<"0">>)}

DriSelections == {"", HighVeryHigh, LowIntermediate}

\* what the hook returns before any lab row is entered: the initial values
\* of lines 49-57
EmptyCalculation ==
    [points |-> <<>>,
     slope |-> Null,
     intercept |-> Null,
     predictedDay90 |-> Null,
     predictedDay120 |-> Null,
     classification |-> "Insufficient Data",
     classificationNote |-> NoteNeedTwo,
     eventRate2yr |-> Null,
     slopeAtLandmark |-> Null,
     log2easixAtLandmark |-> Null]

InitHook ==
    /\ model = FixtureModel
    /\ engine \in Engines
    /\ NoCall
    /\ hazardCalls = <<>>
    /\ NoInterleavedCalls
    /\ NoMatrixCall
    /\ labRows = <<>>
    /\ driSelection = ""
    /\ calculation = <<EmptyCalculation>>
    /\ NoApp
    /\ NoScript

\* the arguments of the next render: a lab row is added and filled in
\* (addRow, updateRow), a row is removed (removeRow) or the DRI selection
\* changes (setDri)
NextArguments ==
    {<<Append(labRows, row), driSelection>> :
        row \in IF Len(labRows) < MaxRows THEN RowPool ELSE {}}
    \cup {<<SubSeq(labRows, 1, i - 1) \o SubSeq(labRows, i + 1, Len(labRows)),
            driSelection>> : i \in 1..Len(labRows)}
    \cup {<<labRows, selection>> :
            selection \in DriSelections \ {driSelection}}

\* the component renders with new arguments and the hook recomputes
Render(rows, selection) ==
    /\ labRows' = rows
    /\ driSelection' = selection
    /\ calculation' = <<useEasixCalculation(rows, selection)>>
    /\ UNCHANGED <<model, callerVars, engine, calls, hazardCalls,
                   interleavedVars, matrixCall, appVars, script>>

NextHook == \E arguments \in NextArguments : Render(arguments[1], arguments[2])

SpecHook == InitHook /\ [][NextHook]_vars

\* the CalculationResult of the current render
Calculation == calculation[1]

\* the lab rows that give a valid point inside the day +20 to +120 window
ValidRows == {i \in 1..Len(labRows) : InWindow(RowToPoint(labRows[i]))}

\* C18: the classification is 'Insufficient Data' whenever fewer than two
\* lab rows are valid in the window, one valid row of any day included, and
\* only then or when no slope can be fitted.
C18_InsufficientDataBelowTwoPoints ==
    /\ Cardinality(ValidRows) < 2
          => Calculation.classification = "Insufficient Data"
    /\ Calculation.classification = "Insufficient Data"
          => Cardinality(ValidRows) < 2 \/ Calculation.slope = Null

\* C19: eventRate2yr, slopeAtLandmark and log2easixAtLandmark are non-null
\* exactly when at least two lab rows are valid in the window and a DRI
\* category is selected; otherwise all three are null.
C19_EventRateIffTwoPointsAndDri ==
    LET eligible == Cardinality(ValidRows) >= 2 /\ driSelection # ""
    IN /\ (Calculation.eventRate2yr # Null) <=> eligible
       /\ (Calculation.slopeAtLandmark # Null) <=> eligible
       /\ (Calculation.log2easixAtLandmark # Null) <=> eligible

\* three valid rows and a DRI category: the event rate is reported
C19_Witness ==
    /\ Cardinality(ValidRows) = 3
    /\ driSelection = HighVeryHigh
    /\ Calculation.eventRate2yr # Null
    /\ isFinite(Calculation.eventRate2yr)

\* C20: with a fitted slope and intercept the classification is 'High' if
\* and only if intercept + slope * 90 >= 2.32 and 'Low' otherwise, and
\* predictedDay120 is intercept + slope * 120.
C20_ClassificationByCutPoint ==
    (Calculation.slope # Null /\ Calculation.intercept # Null)
        => LET at90 == Add(Calculation.intercept,
                           Mul(Calculation.slope, Num(90)))
               at120 == Add(Calculation.intercept,
                            Mul(Calculation.slope, Num(120)))
           IN /\ Calculation.predictedDay90 = at90
              /\ Calculation.predictedDay120 = at120
              /\ Calculation.classification
                    = (IF Le(Rat(232, 100), at90) THEN "High" ELSE "Low")

\* a fit through rows of different days that is classified 'High'
C20_Witness ==
    /\ Calculation.slope # Null
    /\ Calculation.slope # Zero
    /\ Calculation.classification = "High"

-----------------------------------------------------------------------------
(* IEEE 754 binary64, the arithmetic the program runs in                   *)
(* (src/dynamicModel.ts:166-224 as executed).  A natural number of any     *)
(* size is the little-endian sequence of its base-2^15 digits, without a   *)
(* leading zero digit.  A double is <<sign, mantissa, exponent>> of value  *)
(* sign * mantissa * 2^exponent with 2^52 <= mantissa < 2^53, or           *)
(* <<0, <<>>, 0>> for zero.  Every operation is the exact one followed by  *)
(* rounding to nearest, ties to even.  Infinities, NaN, subnormal numbers  *)
(* and the sign of zero are outside this layer.                            *)

RECURSIVE Trim(_)
Trim(a) ==
    IF a # <<>> /\ a[Len(a)] = 0 THEN Trim(SubSeq(a, 1, Len(a) - 1)) ELSE a

RECURSIVE BigOf(_)
BigOf(k) == IF k = 0 THEN <<>> ELSE <<k % 32768>> \o BigOf(k \div 32768)

Limb(a, i) == IF i <= Len(a) THEN a[i] ELSE 0

RECURSIVE BigAddFrom(_, _, _, _)
BigAddFrom(a, b, i, carry) ==
    IF i > Len(a) /\ i > Len(b)
    THEN (IF carry = 0 THEN <<>> ELSE <<carry>>)
    ELSE <<(Limb(a, i) + Limb(b, i) + carry) % 32768>>
            \o BigAddFrom(a, b, i + 1,
                          (Limb(a, i) + Limb(b, i) + carry) \div 32768)

BigAdd(a, b) == BigAddFrom(a, b, 1, 0)

\* a - b for a >= b
RECURSIVE BigSubFrom(_, _, _, _)
BigSubFrom(a, b, i, borrow) ==
    IF i > Len(a) THEN <<>>
    ELSE <<(a[i] - Limb(b, i) - borrow) % 32768>>
            \o BigSubFrom(a, b, i + 1,
                          IF a[i] - Limb(b, i) - borrow < 0 THEN 1 ELSE 0)

BigSub(a, b) == Trim(BigSubFrom(a, b, 1, 0))

RECURSIVE BigCmpFrom(_, _, _)
BigCmpFrom(a, b, i) ==
    IF i = 0 THEN 0
    ELSE IF a[i] < b[i] THEN -1
    ELSE IF a[i] > b[i] THEN 1
    ELSE BigCmpFrom(a, b, i - 1)

\* -1, 0 or 1 as a < b, a = b or a > b
BigCmp(a, b) ==
    IF Len(a) < Len(b) THEN -1
    ELSE IF Len(a) > Len(b) THEN 1
    ELSE BigCmpFrom(a, b, Len(a))

RECURSIVE MulSmallFrom(_, _, _, _)
MulSmallFrom(a, k, i, carry) ==
    IF i > Len(a) THEN (IF carry = 0 THEN <<>> ELSE <<carry>>)
    ELSE <<(a[i] * k + carry) % 32768>>
            \o MulSmallFrom(a, k, i + 1, (a[i] * k + carry) \div 32768)

\* a * k for 0 <= k < 2^15
MulSmall(a, k) == IF k = 0 THEN <<>> ELSE MulSmallFrom(a, k, 1, 0)

ShiftLimb(a) == IF a = <<>> THEN <<>> ELSE <<0>> \o a

RECURSIVE BigMulFrom(_, _, _)
BigMulFrom(a, b, j) ==
    IF j > Len(b) THEN <<>>
    ELSE BigAdd(MulSmall(a, b[j]), ShiftLimb(BigMulFrom(a, b, j + 1)))

BigMul(a, b) == BigMulFrom(a, b, 1)

RECURSIVE ShiftLimbs(_, _)
ShiftLimbs(a, n) == IF n = 0 THEN a ELSE ShiftLimbs(ShiftLimb(a), n - 1)

\* a * 2^k
ShiftLeft(a, k) == ShiftLimbs(MulSmall(a, Pow2(k % 15)), k \div 15)

RECURSIVE DivSmallFrom(_, _, _, _)
DivSmallFrom(a, d, i, rem) ==
    IF i = 0 THEN <<>>
    ELSE Append(DivSmallFrom(a, d, i - 1, (rem * 32768 + a[i]) % d),
                (rem * 32768 + a[i]) \div d)

\* floor(a / 2^k)
ShiftRight(a, k) ==
    IF k \div 15 >= Len(a) THEN <<>>
    ELSE Trim(DivSmallFrom(SubSeq(a, k \div 15 + 1, Len(a)), Pow2(k % 15),
                           Len(a) - k \div 15, 0))

RECURSIVE SmallBitLen(_)
SmallBitLen(k) == IF k = 0 THEN 0 ELSE 1 + SmallBitLen(k \div 2)

BitLen(a) ==
    IF a = <<>> THEN 0 ELSE 15 * (Len(a) - 1) + SmallBitLen(a[Len(a)])

\* bit i of a, bit 0 the lowest
Bit(a, i) == (Limb(a, i \div 15 + 1) \div Pow2(i % 15)) % 2

Double(sign, mantissa, exponent) == <<sign, mantissa, exponent>>
DZero == <<0, <<>>, 0>>
DOne == <<1, ShiftLeft(<<1>>, 52), -52>>

\* sign * M * 2^e rounded to a double (M > 0 with more than 53 bits when
\* sticky, which says that bits below M were dropped)
RoundToDouble(sign, M, e, sticky) ==
    IF BitLen(M) <= 53
    THEN Double(sign, ShiftLeft(M, 53 - BitLen(M)), e - (53 - BitLen(M)))
    ELSE LET k == BitLen(M) - 53
             kept == ShiftRight(M, k)
             half == Bit(M, k - 1) = 1
             below == sticky \/ ShiftLeft(ShiftRight(M, k - 1), k - 1) # M
             up == half /\ (below \/ Bit(M, k) = 1)
             rounded == IF up THEN BigAdd(kept, <<1>>) ELSE kept
         IN IF BitLen(rounded) = 54
            THEN Double(sign, ShiftRight(rounded, 1), e + k + 1)
            ELSE Double(sign, rounded, e + k)

\* the double of an integer of the model
DoubleOf(k) ==
    IF k = 0 THEN DZero
    ELSE RoundToDouble(IF k < 0 THEN -1 ELSE 1, BigOf(AbsInt(k)), 0, FALSE)

DNeg(x) == Double(-x[1], x[2], x[3])

\* |x| < |y|
DAbsLess(x, y) ==
    IF y[1] = 0 THEN FALSE
    ELSE IF x[1] = 0 THEN TRUE
    ELSE IF x[3] # y[3] THEN x[3] < y[3]
    ELSE BigCmp(x[2], y[2]) < 0

\* the mantissas of x and y on the smaller of the two exponents
Aligned(x, y) ==
    LET e == IF x[3] < y[3] THEN x[3] ELSE y[3]
    IN [e |-> e, x |-> ShiftLeft(x[2], x[3] - e), y |-> ShiftLeft(y[2], y[3] - e)]

DAddAligned(x, y, al) ==
    IF x[1] = y[1] THEN RoundToDouble(x[1], BigAdd(al.x, al.y), al.e, FALSE)
    ELSE IF BigCmp(al.x, al.y) = 0 THEN DZero
    ELSE IF BigCmp(al.x, al.y) > 0
    THEN RoundToDouble(x[1], BigSub(al.x, al.y), al.e, FALSE)
    ELSE RoundToDouble(y[1], BigSub(al.y, al.x), al.e, FALSE)

\* x + y; an operand below 2^-200 of the other does not change it
DAdd(x, y) ==
    IF x[1] = 0 THEN y
    ELSE IF y[1] = 0 THEN x
    ELSE IF x[3] - y[3] > 200 THEN x
    ELSE IF y[3] - x[3] > 200 THEN y
    ELSE DAddAligned(x, y, Aligned(x, y))

DSub(x, y) == DAdd(x, DNeg(y))

DMul(x, y) ==
    IF x[1] = 0 \/ y[1] = 0 THEN DZero
    ELSE RoundToDouble(x[1] * y[1], BigMul(x[2], y[2]), x[3] + y[3], FALSE)

\* the largest digit q in lo..hi with d * q <= rem
RECURSIVE QuotientDigit(_, _, _, _)
QuotientDigit(rem, d, lo, hi) ==
    IF lo = hi THEN lo
    ELSE IF BigCmp(MulSmall(d, (lo + hi + 1) \div 2), rem) <= 0
    THEN QuotientDigit(rem, d, (lo + hi + 1) \div 2, hi)
    ELSE QuotientDigit(rem, d, lo, (lo + hi + 1) \div 2 - 1)

\* n more base-2^15 digits of rem / d for rem < d: long division
RECURSIVE LongDivide(_, _, _)
LongDividePlace(rem, d, n, digit) ==
    LET rest == LongDivide(BigSub(rem, MulSmall(d, digit)), d, n - 1)
    IN [q |-> Append(rest.q, digit), rem |-> rest.rem]

LongDivide(rem, d, n) ==
    IF n = 0 THEN [q |-> <<>>, rem |-> rem]
    ELSE LongDividePlace(ShiftLimb(rem), d, n,
                         QuotientDigit(ShiftLimb(rem), d, 0, 32767))

\* x / y from floor(|x| * 2^60 / |y|) and its remainder
DDivRounded(x, y, first, rest) ==
    RoundToDouble(x[1] * y[1], Trim(Append(rest.q, first)),
                  x[3] - y[3] - 60, rest.rem # <<>>)

\* x / y for y # 0
DDiv(x, y) ==
    IF x[1] = 0 THEN DZero
    ELSE IF BigCmp(x[2], y[2]) >= 0
    THEN DDivRounded(x, y, 1, LongDivide(BigSub(x[2], y[2]), y[2], 4))
    ELSE DDivRounded(x, y, 0, LongDivide(x[2], y[2], 4))

\* the double 1e-12 = 4951760157141521 * 2^-92
PivotTolerance64 == Double(1, <<27153, 603, 24166, 140>>, -92)

-----------------------------------------------------------------------------
(* matrixInverse in binary64 (src/dynamicModel.ts:166-224)                 *)

\* Math.abs(x) < 1e-12
BelowPivotTolerance64(x) == DAbsLess(x, PivotTolerance64)

RECURSIVE FindPivot64(_, _, _, _)
FindPivot64(aug, col, row, maxRow) ==
    IF row > Len(aug) THEN maxRow
    ELSE IF DAbsLess(aug[maxRow][col], aug[row][col])
         THEN FindPivot64(aug, col, row + 1, row)
         ELSE FindPivot64(aug, col, row + 1, maxRow)

ScalePivotRow64(pivotRow, pivot) ==
    Array([j \in 1..Len(pivotRow) |-> DDiv(pivotRow[j], pivot)])

EliminateColumn64(aug, col, scaledRow) ==
    Array([row \in 1..Len(aug) |->
        IF row = col THEN scaledRow
        ELSE Array([j \in 1..Len(scaledRow) |->
                DSub(aug[row][j], DMul(aug[row][col], scaledRow[j]))])])

RECURSIVE Eliminate64(_, _)
PivotStep64(swapped, col) ==
    IF BelowPivotTolerance64(swapped[col][col])
    THEN [singular |-> TRUE, aug |-> swapped]
    ELSE Eliminate64(EliminateColumn64(swapped, col,
                         ScalePivotRow64(swapped[col], swapped[col][col])),
                     col + 1)

Eliminate64(aug, col) ==
    IF col > Len(aug) THEN [singular |-> FALSE, aug |-> aug]
    ELSE PivotStep64(SwapRows(aug, col, FindPivot64(aug, col, col + 1, col)),
                     col)

\* the inverse cut out of the augmented matrix
InverseOf(done, n) ==
    [singular |-> done.singular,
     inverse |-> Array([i \in 1..n |-> SubSeq(done.aug[i], n + 1, 2 * n)])]

\* matrixInverse on a matrix of integers, computed as the program does
matrixInverse64(A) ==
    InverseOf(Eliminate64(
                  Array([i \in 1..Len(A) |->
                      [j \in 1..Len(A) |-> DoubleOf(A[i][j])]
                          \o [j \in 1..Len(A) |->
                                 IF i = j THEN DOne ELSE DZero]]),
                  1),
              Len(A))

\* rows of integers; several pairs of them are proportional
IntegerRows ==
    {<<5564, 11999>>, <<8560, 18460>>, <<13552, 14432>>, <<16093, 17138>>,
     <<1, 2>>, <<2, 4>>, <<49, 1>>, <<3, 1>>, <<0, 1>>, <<1, 0>>}

IntegerMatrices == {<<r1, r2>> : r1, r2 \in IntegerRows}

InitDoubles ==
    /\ model = FixtureModel
    /\ engine = "gls"
    /\ NoCall
    /\ hazardCalls = <<>>
    /\ NoInterleavedCalls
    /\ matrixCall = <<>>
    /\ NoCalculation

Returned64(inv) ==
    IF inv.singular THEN Error(SingularMatrix) ELSE Value(inv.inverse)

\* one call of matrixInverse on a matrix of integers
CallMatrixInverse64(A) ==
    /\ matrixCall = <<>>
    /\ MatrixCall("matrixInverse", Mat(A), <<>>, Returned64(matrixInverse64(A)))

NextDoubles == \E A \in IntegerMatrices : CallMatrixInverse64(A)

SpecDoubles == InitDoubles /\ [][NextDoubles]_vars

\* C16: matrixInverse fails with the singular-matrix error on every
\* singular square matrix and never returns a matrix for one.
C16_SingularMatrixRejected ==
    \A k \in 1..Len(matrixCall) :
        (matrixCall[k].op = "matrixInverse" /\ Det(matrixCall[k].A) = Zero)
            => Threw(matrixCall[k])

-----------------------------------------------------------------------------
(* The random effects of the exact engine (src/dynamicModel.ts:305-348)    *)

\* the standardized day of an observation, (day - mean) / sd
StandardizedDay(obs) ==
    Div(Sub(obs.day, model.lme_model.time_standardization.mean),
        model.lme_model.time_standardization.sd)

\* value - (intercept + time_slope * t + risk_coefficient * risk)
ResidualOf(obs, d) ==
    Sub(obs.log2easix,
        Add(Add(model.lme_model.fixed_effects.intercept,
                Mul(model.lme_model.fixed_effects.time_slope,
                    StandardizedDay(obs))),
            Mul(model.lme_model.fixed_effects.dri_coefficient, d)))

\* entry (i, j) of Z*G*Z' + sigma^2*I for Z with rows [1, t_i]:
\* g00 + g01 * (t_i + t_j) + g11 * t_i * t_j, plus sigma^2 on the diagonal
MarginalCovariance(t) ==
    Array([i \in 1..Len(t) |-> Array([j \in 1..Len(t) |->
        Add(Add(Add(model.lme_model.random_effects.variance_intercept,
                    Mul(model.lme_model.random_effects
                            .covariance_intercept_slope,
                        Add(t[i], t[j]))),
                Mul(Mul(model.lme_model.random_effects.variance_slope, t[i]),
                    t[j])),
            IF i = j THEN model.lme_model.residual_variance ELSE Zero)])])

\* G*Z'*w for a vector w: the pair
\* (sum (g00 + g01 * t_i) * w_i, sum (g01 + g11 * t_i) * w_i)
ProjectOnRandomEffects(t, w) ==
    <<SumSeq([i \in 1..Len(t) |->
          Mul(Add(model.lme_model.random_effects.variance_intercept,
                  Mul(model.lme_model.random_effects
                          .covariance_intercept_slope, t[i])),
              w[i])]),
      SumSeq([i \in 1..Len(t) |->
          Mul(Add(model.lme_model.random_effects.covariance_intercept_slope,
                  Mul(model.lme_model.random_effects.variance_slope, t[i])),
              w[i])])>>

\* b = G*Z'*V^-1*r, stated without an inverse: w solves V*w = r and
\* b = G*Z'*w
IsBlup(b, qualifying, d, w) ==
    LET t == Array([i \in 1..Len(qualifying) |->
                       StandardizedDay(qualifying[i])])
        r == Array([i \in 1..Len(qualifying) |->
                       ResidualOf(qualifying[i], d)])
    IN /\ matrixVectorMultiply(MarginalCovariance(t), w) = r
       /\ b = ProjectOnRandomEffects(t, w)

\* C22: in the exact engine the random effects of every call on n >= 2
\* qualifying observations are (b0, b1) = G*Z'*V^-1*r with Z, V, G and r
\* as the model defines them.
C22_RandomEffectsAreBlup ==
    \A p \in DOMAIN frames :
        frames[p].b_hat # <<>>
            => IsBlup(frames[p].b_hat,
                      SelectSeq(patients[p].args.observations, Qualifies),
                      patients[p].args.dri,
                      matrixVectorMultiply(
                          frames[p].Vinv,
                          Array([i \in 1..Len(frames[p].preLandmark) |->
                              ResidualOf(frames[p].preLandmark[i],
                                         patients[p].args.dri)])))

\* a call on three qualifying observations has computed non-zero random
\* effects
C22_Witness ==
    \E p \in DOMAIN frames :
        /\ Len(frames[p].b_hat) = 2
        /\ Len(frames[p].preLandmark) = 3
        /\ frames[p].b_hat[1] # Zero
        /\ frames[p].b_hat[2] # Zero

-----------------------------------------------------------------------------
(* The projection to the landmark (src/dynamicModel.ts:350-366)            *)

\* the standardized landmark time L = (landmark_time - mean) / sd
StandardizedLandmark ==
    StandardizedDay([day |-> model.metadata.landmark_time_days])

\* intercept + time_slope * L + risk_coefficient * risk + b0 + b1 * L
ValueAtLandmark(b, d) ==
    Add(Add(Add(Add(model.lme_model.fixed_effects.intercept,
                    Mul(model.lme_model.fixed_effects.time_slope,
                        StandardizedLandmark)),
                Mul(model.lme_model.fixed_effects.dri_coefficient, d)),
            b[1]),
        Mul(b[2], StandardizedLandmark))

\* cox.dri * risk + cox.log2easix_at_landmark * value
\*    + cox.slope_at_landmark * slope
LinearPredictorOf(d, value, slope) ==
    Add(Add(Mul(model.cox_model.coefficients.dri, d),
            Mul(model.cox_model.coefficients.log2easix_at_landmark, value)),
        Mul(model.cox_model.coefficients.slope_at_landmark, slope))

\* C23: every call that returns reports the landmark value computed from
\* the random effects of its own BLUP step and the linear predictor
\* computed from the reported landmark value and slope.
C23_LandmarkValueAndLinearPredictor ==
    \A p \in DOMAIN patients :
        (patients[p].pc = "returned" /\ patients[p].result.kind = "result")
            => /\ Len(frames[p].b_hat) = 2
               /\ patients[p].result.log2easix_at_landmark
                    = ValueAtLandmark(frames[p].b_hat, patients[p].args.dri)
               /\ patients[p].result.linear_predictor
                    = LinearPredictorOf(
                          patients[p].args.dri,
                          patients[p].result.log2easix_at_landmark,
                          patients[p].result.slope_at_landmark)

\* a call with risk indicator 1 has returned a result whose random slope
\* is not zero
C23_Witness ==
    \E p \in DOMAIN patients :
        /\ patients[p].pc = "returned"
        /\ patients[p].result.kind = "result"
        /\ patients[p].args.dri = One
        /\ frames[p].b_hat[2] # Zero
        /\ patients[p].result.linear_predictor # Zero

-----------------------------------------------------------------------------
(* The slope at the landmark in the two implementations                    *)
(* (src/dynamicModel.ts:356-359 and 695-697)                               *)

\* the frame of a call of the exact engine after its BLUP statement, for a
\* call that gets that far
FrameAfterBlup(pre, d) ==
    BlupStatement([dri |-> d],
        InverseStatement([dri |-> d],
            VarianceStatement([dri |-> d],
                ResidualStatement([dri |-> d],
                    [EmptyFrame EXCEPT !.preLandmark = pre]).frame).frame)
            .frame).frame

\* b1 of the implementation in use for the observations a call worked on
RandomSlope ==
    IF engine = "gls" THEN FrameAfterBlup(preLandmark, dri).b_hat[2]
    ELSE ShrunkenEstimates(
             Array([i \in 1..Len(preLandmark) |->
                       standardizeTime(preLandmark[i].day)]),
             Array([i \in 1..Len(preLandmark) |->
                       ResidualOf(preLandmark[i], dri)]),
             simpleLinearRegression(
                 Array([i \in 1..Len(preLandmark) |->
                           standardizeTime(preLandmark[i].day)]),
                 Array([i \in 1..Len(preLandmark) |->
                           ResidualOf(preLandmark[i], dri)])))[2]

\* C24: in every implementation of predictDynamicEASIX slope_at_landmark
\* is time_slope + b1, on the standardized time scale, with no division by
\* the time-standardization sd.
C24_SlopeOnStandardizedScale ==
    Returned
        => result.slope_at_landmark
             = Add(model.lme_model.fixed_effects.time_slope, RandomSlope)

-----------------------------------------------------------------------------
(* standardizeTime under other time standardizations                       *)
(* (src/dynamicModel.ts:233-239 and 560-566)                               *)

\* means and standard deviations of the time standardization; a mean of 0
\* is that of days already centred
MeanPool == {Zero, Num(70)}
SdPool == {One, Num(30)}

StandardizationConfigs ==
    {[FixtureModel EXCEPT !.lme_model.time_standardization =
                               [mean |-> mean, sd |-> sd]] :
        mean \in MeanPool, sd \in SdPool}

InitStandardization ==
    /\ model \in StandardizationConfigs
    /\ engine \in Engines
    /\ NoCall
    /\ hazardCalls = <<>>
    /\ NothingElse

SpecStandardization == InitStandardization /\ [][NextStartup]_vars

\* C25: when the time-standardization sd is a non-zero number and the mean
\* a finite number, 0 included, standardizeTime returns and no call fails
\* with 'Time standardization parameters not available'.
C25_StandardizeTimeAcceptsZeroMean ==
    (/\ Done
     /\ isFinite(model.lme_model.time_standardization.mean)
     /\ isFinite(model.lme_model.time_standardization.sd)
     /\ model.lme_model.time_standardization.sd # Zero)
        => result # Error(NoTimeStandardization)

-----------------------------------------------------------------------------
(* matrixInverse returns the inverse (src/dynamicModel.ts:166-224)         *)

\* row col of A is not the row partial pivoting selects for column col: the
\* first elimination step on A exchanges two rows
FirstPivotSwaps(A) ==
    \E i \in 2..Len(A) : Lt(Abs(A[1][1]), Abs(A[i][1]))

\* C26: for every square matrix A on which matrixInverse returns, the
\* result B satisfies A*B = B*A = identity in exact arithmetic, row swaps
\* of the partial pivoting included.
C26_InverseIsTwoSided ==
    \A k \in 1..Len(matrixCall) :
        (/\ matrixCall[k].op = "matrixInverse"
         /\ IsSquare(matrixCall[k].A)
         /\ matrixCall[k].outcome.kind = "value")
            => /\ matrixMultiply(matrixCall[k].A, matrixCall[k].outcome.value)
                    = eye(Len(matrixCall[k].A))
               /\ matrixMultiply(matrixCall[k].outcome.value, matrixCall[k].A)
                    = eye(Len(matrixCall[k].A))

\* matrixInverse has returned for a 3x3 matrix with a 0 in the first
\* diagonal place, which the elimination can only handle by a row swap
C26_Witness ==
    \E k \in 1..Len(matrixCall) :
        /\ matrixCall[k].op = "matrixInverse"
        /\ Len(matrixCall[k].A) = 3
        /\ matrixCall[k].A[1][1] = Zero
        /\ FirstPivotSwaps(matrixCall[k].A)
        /\ matrixCall[k].outcome.kind = "value"

-----------------------------------------------------------------------------
(* The order of the observations (src/dynamicModel.ts:283-385, 634-723)    *)

\* the observations the caller orders in different ways
OrderObsPool ==
    {Obs(Num(60), One), Obs(Num(90), Rat(7, 5)), Obs(Num(120), Num(2)),
     Obs(NegInf, One)}

InitOrder ==
    /\ model \in Configs
    /\ engine \in Engines
    /\ NoCall
    /\ hazardCalls = <<>>
    /\ NothingElse

\* the caller exchanges two neighbouring observations of the list; the
\* outcomes of the calls made so far on these observations are kept
Reorder(i) ==
    /\ i < Len(observations)
    /\ observations[i] # observations[i + 1]
    /\ observations' = [observations EXCEPT ![i] = observations[i + 1],
                                            ![i + 1] = observations[i]]
    /\ pc' = "ready"
    /\ result' = NoResult
    /\ UNCHANGED <<model, dri, engine, preLandmark, entry, invArg, calls,
                   hazardCalls, interleavedVars, matrixCall, hookVars, appVars, script>>

\* one call of the engine on the list in its present order
PredictInOrder ==
    /\ pc = "ready"
    /\ result' = DynamicPrediction(observations, dri)
    /\ calls' = KeepLastTwo(calls, result')
    /\ pc' = "done"
    /\ UNCHANGED <<model, observations, dri, engine, preLandmark, entry,
                   invArg, hazardCalls, interleavedVars, matrixCall,
                   hookVars, appVars, script>>

NextOrder ==
    \/ \E obs \in OrderObsPool : AddObservation(obs)
    \/ \E i \in 1..MaxObs : RemoveObservation(i)
    \/ \E d \in DriPool : SetDri(d)
    \/ \E i \in 1..MaxObs : Reorder(i)
    \/ PredictInOrder

SpecOrder == InitOrder /\ [][NextOrder]_vars

\* the same landmark value, slope and linear predictor, or the same error
SameOutcome(a, b) ==
    IF a.kind = "result" /\ b.kind = "result"
    THEN /\ a.log2easix_at_landmark = b.log2easix_at_landmark
         /\ a.slope_at_landmark = b.slope_at_landmark
         /\ a.linear_predictor = b.linear_predictor
    ELSE a = b

\* C28: calls on the same observations in different orders, with the same
\* risk indicator, yield the same log2easix_at_landmark, slope_at_landmark
\* and linear_predictor in exact arithmetic, or the same error.
C28_OrderIndependent ==
    \A i, j \in 1..Len(calls) :
        SameOutcome(calls[i], calls[j])

\* calls on observations whose days are all finite numbers do not depend
\* on the order
OrderIndependentOnFiniteDays ==
    (\A k \in 1..Len(observations) : isFinite(observations[k].day))
        => C28_OrderIndependent

-----------------------------------------------------------------------------
(* testPredictions.ts: the validation script around validatePredictionEngine *)

MaxCases == 2       \* longest list of validation cases

\* what R predicted for the observations (60, 1.0), (90, 1.4) with dri 0,
\* to the digits of the validation file
RPredictions ==
    [log2easix_at_landmark |-> Rat(188, 100),
     slope_at_landmark |-> Rat(497, 1000),
     linear_predictor |-> Rat(156, 100),
     survival_2yr |-> Rat(305, 1000),
     event_rate_2yr_percent |-> Rat(695, 10)]

ValidationCase(obsList, d) ==
    [observations |-> obsList, dri |-> d, expected_predictions |-> RPredictions]

\* the validation cases a data file holds; the last one has a single
\* observation before the landmark
CasePool ==
    {ValidationCase(<<Obs(Num(60), One), Obs(Num(90), Rat(7, 5))>>, Zero),
     ValidationCase(<<Obs(Num(60), One), Obs(Num(90), Rat(7, 5))>>, One),
     ValidationCase(<<Obs(Num(60), One), Obs(Num(121), Num(2))>>, Zero)}

CaseLists ==
    UNION {[1..n -> CasePool] : n \in 0..MaxCases}

\* the lines the script and validatePredictionEngine write to the console
LineStarting == "Starting validation of JavaScript prediction engine..."
LineHeader == "Validating JavaScript Prediction Engine"
LineAllPassed == "All validation tests PASSED!"
LineSomeFailed == "Some validation tests FAILED"
LineError == "Error during validation:"
LineComplete == "Validation complete!"
LineFailed == "Validation failed with error:"
LineCase(passed) == IF passed THEN "Test case PASSED" ELSE "Test case FAILED"

\* the script before its first statement: whether validation_test_cases.json
\* can be imported and the cases it holds are given by the environment
InitScript ==
    /\ model = FixtureModel
    /\ engine \in Engines
    /\ NoCall
    /\ hazardCalls = <<>>
    /\ NoInterleavedCalls
    /\ NoMatrixCall
    /\ labRows = <<>> /\ driSelection = "" /\ calculation = <<>>
    /\ NoApp
    /\ \E dataFile \in {"present", "missing"}, cases \in CaseLists :
          script = [pc |-> "start", dataFile |-> dataFile, cases |-> cases,
                    i |-> 0, allPassed |-> TRUE, console |-> <<>>,
                    promise |-> "none", exitCode |-> <<>>]

ScriptStep(next) ==
    /\ script' = next
    /\ UNCHANGED <<model, callerVars, engine, calls, hazardCalls,
                   interleavedVars, matrixCall, hookVars, appVars>>

\* dynamicModel.ts lines 467-469: the catch block logs the error; the async
\* function then returns normally, so its promise is fulfilled
CatchBlock ==
    [script EXCEPT !.console = Append(@, LineError),
                   !.promise = "resolved",
                   !.pc = "settled"]

\* testPredictions.ts lines 4-6: the first line of output and the call
StartScript ==
    /\ script.pc = "start"
    /\ ScriptStep([script EXCEPT !.console = Append(@, LineStarting),
                                 !.promise = "pending",
                                 !.pc = "import"])

\* dynamicModel.ts lines 411-418: the dynamic import inside the try block
ImportValidationData ==
    /\ script.pc = "import"
    /\ ScriptStep(IF script.dataFile = "present"
                  THEN [script EXCEPT !.console = Append(@, LineHeader),
                                      !.allPassed = TRUE,
                                      !.i = 1,
                                      !.pc = "cases"]
                  ELSE CatchBlock)

\* lines 432-450: the five checks of one case
Checks(r, expected) ==
    {<<r.log2easix_at_landmark, expected.log2easix_at_landmark, Rat(5, 100)>>,
     <<r.slope_at_landmark, expected.slope_at_landmark, Rat(1, 1000)>>,
     <<r.linear_predictor, expected.linear_predictor, Rat(5, 100)>>,
     <<r.survival_2yr, expected.survival_2yr, Rat(5, 1000)>>,
     <<r.event_rate_2yr_percent, expected.event_rate_2yr_percent, Rat(1, 2)>>}

CasePassed(r, expected) ==
    \A check \in Checks(r, expected) :
        Lt(Abs(Sub(check[1], check[2])), check[3])

\* lines 420-457: one pass of the loop; a throw of predictDynamicEASIX
\* leaves the loop for the catch block
AfterCase(testCase, r) ==
    IF r.kind = "error" THEN CatchBlock
    ELSE [script EXCEPT
            !.console = Append(@, LineCase(CasePassed(r, testCase.expected_predictions))),
            !.allPassed = @ /\ CasePassed(r, testCase.expected_predictions),
            !.i = @ + 1]

RunValidationCase ==
    /\ script.pc = "cases"
    /\ script.i <= Len(script.cases)
    /\ ScriptStep(AfterCase(script.cases[script.i],
                            DynamicPrediction(
                                script.cases[script.i].observations,
                                script.cases[script.i].dri)))

\* lines 459-465: the summary after the last case
FinishValidation ==
    /\ script.pc = "cases"
    /\ script.i > Len(script.cases)
    /\ ScriptStep([script EXCEPT
            !.console = Append(@, IF script.allPassed THEN LineAllPassed
                                  ELSE LineSomeFailed),
            !.promise = "resolved",
            !.pc = "settled"])

\* testPredictions.ts lines 7-13: then() on fulfilment, catch() on rejection
\* with process.exit(1); after then() the process ends with status 0
PromiseSettled ==
    /\ script.pc = "settled"
    /\ ScriptStep(IF script.promise = "rejected"
                  THEN [script EXCEPT !.console = Append(@, LineFailed),
                                      !.exitCode = <<1>>,
                                      !.pc = "exited"]
                  ELSE [script EXCEPT !.console = Append(@, LineComplete),
                                      !.exitCode = <<0>>,
                                      !.pc = "exited"])

NextScript ==
    \/ StartScript
    \/ ImportValidationData
    \/ RunValidationCase
    \/ FinishValidation
    \/ PromiseSettled

SpecScript == InitScript /\ [][NextScript]_vars

Printed(line) == \E k \in 1..Len(script.console) : script.console[k] = line

\* the validation data cannot be loaded, or predictDynamicEASIX throws on
\* one of the cases
ValidationFails ==
    \/ script.dataFile = "missing"
    \/ \E k \in 1..Len(script.cases) :
          DynamicPrediction(script.cases[k].observations,
                            script.cases[k].dri).kind = "error"

\* C27: when the validation data cannot be loaded or predictDynamicEASIX
\* throws on a validation case, the promise of validatePredictionEngine
\* rejects, the script prints 'Validation failed with error', exits with
\* status 1 and does not print 'Validation complete!'.
C27_FailedValidationExitsWithFailure ==
    (script.pc = "exited" /\ ValidationFails)
        => /\ script.promise = "rejected"
           /\ Printed(LineFailed)
           /\ script.exitCode = <<1>>
           /\ ~Printed(LineComplete)

-----------------------------------------------------------------------------
(* utils/fileParser.ts: parseFile on the text of a CSV file *)

UpperCase == <<"A", "B", "C", "D", "E", "F", "G", "H", "I", "J", "K", "L", "M",
               "N", "O", "P", "Q", "R", "S", "T", "U", "V", "W", "X", "Y", "Z">>
LowerCase == <<"a", "b", "c", "d", "e", "f", "g", "h", "i", "j", "k", "l", "m",
               "n", "o", "p", "q", "r", "s", "t", "u", "v", "w", "x", "y", "z">>

\* The({F(v) : v \in {e}}) is F of the value of e: e is evaluated once,
\* before F, as JavaScript evaluates an argument or a const
The(singleton) == CHOOSE r \in singleton : TRUE

\* String.prototype.toLowerCase, trim, includes and split on one character
LowerChar(c) ==
    IF \E k \in 1..26 : UpperCase[k] = c
    THEN LowerCase[CHOOSE k \in 1..26 : UpperCase[k] = c]
    ELSE c

toLowerCase(s) == Array([k \in 1..Len(s) |-> LowerChar(s[k])])

WhiteSpace == {" ", "\t", "\n", "\r"}

RECURSIVE trimStart(_)
trimStart(s) ==
    IF s # <<>> /\ s[1] \in WhiteSpace THEN trimStart(SubSeq(s, 2, Len(s)))
    ELSE s

RECURSIVE trimEnd(_)
trimEnd(s) ==
    IF s # <<>> /\ s[Len(s)] \in WhiteSpace
    THEN trimEnd(SubSeq(s, 1, Len(s) - 1))
    ELSE s

trim(s) == trimEnd(trimStart(s))

includes(s, part) ==
    \E k \in 0..(Len(s) - Len(part)) : SubSeq(s, k + 1, k + Len(part)) = part

\* the first index at or after i that holds the separator, or Len(s) + 1
IndexOf(s, separator, i) ==
    LET hits == {k \in i..Len(s) : s[k] = separator}
    IN IF hits = {} THEN Len(s) + 1
       ELSE CHOOSE k \in hits : \A other \in hits : k <= other

RECURSIVE SplitFrom(_, _, _)
SplitFrom(s, separator, i) ==
    LET end == IndexOf(s, separator, i)
    IN IF end > Len(s) THEN <<SubSeq(s, i, Len(s))>>
       ELSE <<SubSeq(s, i, end - 1)>> \o SplitFrom(s, separator, end + 1)

split(s, separator) == SplitFrom(s, separator, 1)

\* lines 21-30: the index of the first header that contains one of the
\* possible names or is contained in it, the names tried in order; -1 if none
findIndex(normalizedHeaders, possible) ==
    LET hits == {k \in 1..Len(normalizedHeaders) :
                    \/ includes(normalizedHeaders[k], possible)
                    \/ includes(possible, normalizedHeaders[k])}
    IN IF hits = {} THEN -1
       ELSE (CHOOSE k \in hits : \A other \in hits : k <= other) - 1

RECURSIVE FirstMatch(_, _)
FirstMatch(normalizedHeaders, normalizedPossible) ==
    IF normalizedPossible = <<>> THEN -1
    ELSE IF findIndex(normalizedHeaders, normalizedPossible[1]) # -1
    THEN findIndex(normalizedHeaders, normalizedPossible[1])
    ELSE FirstMatch(normalizedHeaders,
                    SubSeq(normalizedPossible, 2, Len(normalizedPossible)))

matchColumn(headers, possibleNames) ==
    FirstMatch(
        Array([k \in 1..Len(headers) |-> trim(toLowerCase(headers[k]))]),
        Array([k \in 1..Len(possibleNames) |->
                  trim(toLowerCase(possibleNames[k]))]))

\* row[idx]: the cell, or undefined beyond the end of the row and for idx -1;
\* the undefined cell is held as the empty string, which is falsy as well
CellAt(row, idx) == IF idx >= 0 /\ idx < Len(row) THEN row[idx + 1] ELSE <<>>

\* A Date is held as its local time in hours since 1970-01-01 00:00, in a
\* time zone without clock changes; NoDate is null (or an Invalid Date).
NoDate == <<>>

\* days from 1970-01-01 to the civil date y-m-d (m in 1..12)
DaysFromCivil(y, m, d) ==
    LET yy == IF m <= 2 THEN y - 1 ELSE y
        era == yy \div 400
        yoe == yy - era * 400
        doy == (153 * (IF m > 2 THEN m - 3 ELSE m + 9) + 2) \div 5 + d - 1
        doe == yoe * 365 + yoe \div 4 - yoe \div 100 + doy
    IN era * 146097 + doe - 719468

\* new Date(year, monthIndex, day, hours): months and days beyond the
\* calendar carry over
NewDate(year, monthIndex, day, hours) ==
    <<24 * DaysFromCivil(year + (monthIndex \div 12),
                         (monthIndex % 12) + 1, day)
        + hours>>

\* the groups of /^(\d{a,b})[-\/](\d{c,d})[-\/](\d{e,f})/ on s, with $ at the
\* end when anchored; <<>> when s does not match
MatchDate(s, widths, anchored) ==
    LET firstEnd == DigitRun(s, 1)
        secondEnd == DigitRun(s, firstEnd + 1)
        thirdRun == DigitRun(s, secondEnd + 1)
        thirdEnd == IF anchored \/ thirdRun - (secondEnd + 1) <= widths[3][2]
                    THEN thirdRun
                    ELSE secondEnd + 1 + widths[3][2]
        IsSeparator(k) == k <= Len(s) /\ (s[k] = "-" \/ s[k] = "/")
        Fits(length, width) == width[1] <= length /\ length <= width[2]
    IN IF /\ Fits(firstEnd - 1, widths[1])
          /\ IsSeparator(firstEnd)
          /\ Fits(secondEnd - (firstEnd + 1), widths[2])
          /\ IsSeparator(secondEnd)
          /\ Fits(thirdEnd - (secondEnd + 1), widths[3])
          /\ (anchored => thirdEnd = Len(s) + 1)
       THEN <<DecimalValue(s, 1, firstEnd),
              DecimalValue(s, firstEnd + 1, secondEnd),
              DecimalValue(s, secondEnd + 1, thirdEnd)>>
       ELSE <<>>

DayMonthYear == <<<<1, 2>>, <<1, 2>>, <<4, 4>>>>
YearMonthDay == <<<<4, 4>>, <<1, 2>>, <<1, 2>>>>

\* /^\d+(\.\d+)?$/
IsJustANumber(s) ==
    LET intEnd == DigitRun(s, 1)
        fracEnd == DigitRun(s, intEnd + 1)
    IN /\ intEnd > 1
       /\ \/ intEnd = Len(s) + 1
          \/ /\ s[intEnd] = "."
             /\ fracEnd > intEnd + 1
             /\ fracEnd = Len(s) + 1

\* lines 89-90: new Date(dateStr) on a string that has no '/' or '-' and is
\* not a number.  A string without a digit is an Invalid Date; strings of
\* words and digits ("March 15, 2024") are not among the files of FilePool.
NativeDate(dateStr) == NoDate

\* lines 59-126, the branch of strings: the cells of a CSV file
parseDate(value, formatHint) ==
    LET trimmed == trim(value)
        dateStr == IF includes(trimmed, <<":">>)
                   THEN SubSeq(trimmed, 1, IndexOf(trimmed, " ", 1) - 1)
                   ELSE trimmed
        hasDateSeparators ==
            includes(dateStr, <<"/">>) \/ includes(dateStr, <<"-">>)
        dateMatch == MatchDate(dateStr, DayMonthYear, TRUE)
        isoMatch == MatchDate(dateStr, YearMonthDay, TRUE)
    IN IF value = <<>> THEN NoDate
       ELSE IF /\ ~hasDateSeparators
               /\ ~IsJustANumber(dateStr)
               /\ NativeDate(dateStr) # NoDate
       THEN NativeDate(dateStr)
       ELSE IF dateMatch # <<>>
       THEN IF formatHint = "INTL"
            THEN NewDate(dateMatch[3], dateMatch[2] - 1, dateMatch[1], 0)
            ELSE NewDate(dateMatch[3], dateMatch[1] - 1, dateMatch[2], 0)
       ELSE IF isoMatch # <<>>
       THEN NewDate(isoMatch[1], isoMatch[2] - 1, isoMatch[3], 0)
       ELSE NoDate

\* lines 33-56: the first cell that decides between DD/MM and MM/DD
RECURSIVE FormatOfCells(_)
FormatOfCells(cells) ==
    IF cells = <<>> THEN "US"
    ELSE LET match == MatchDate(trim(cells[1]), DayMonthYear, FALSE)
         IN IF match # <<>> /\ match[1] > 12 THEN "INTL"
            ELSE IF match # <<>> /\ match[2] > 12 THEN "US"
            ELSE FormatOfCells(SubSeq(cells, 2, Len(cells)))

RECURSIVE Flatten(_)
Flatten(rows) ==
    IF rows = <<>> THEN <<>>
    ELSE rows[1] \o Flatten(SubSeq(rows, 2, Len(rows)))

detectDateFormat(data) == FormatOfCells(Flatten(data))

\* the names the parsers look for in the header line
\* line 183
DateNames ==
    <<<<"d", "a", "t", "e">>,
      <<"l", "a", "b", " ", "d", "a", "t", "e">>,
      <<"c", "o", "l", "l", "e", "c", "t", "i", "o", "n", " ", "d", "a", "t", "e">>,
      <<"t", "i", "m", "e", "s", "t", "a", "m", "p">>,
      <<"t", "i", "m", "e">>>>

\* line 184
DayNames ==
    <<<<"d", "a", "y">>,
      <<"d", "a", "y", "s">>,
      <<"d", "a", "y", " ", "p", "o", "s", "t", "-", "t", "r", "a", "n", "s", "p", "l", "a", "n", "t">>,
      <<"d", "+">>,
      <<"p", "o", "s", "t", "-", "t", "r", "a", "n", "s", "p", "l", "a", "n", "t", " ", "d", "a", "y">>>>

\* line 185
LdhNames ==
    <<<<"l", "d", "h">>,
      <<"l", "a", "c", "t", "a", "t", "e", " ", "d", "e", "h", "y", "d", "r", "o", "g", "e", "n", "a", "s", "e">>,
      <<"l", "a", "c", "t", "a", "t", "e">>>>

\* line 186
CreatinineNames ==
    <<<<"c", "r", "e", "a", "t", "i", "n", "i", "n", "e">>,
      <<"c", "r">>,
      <<"c", "r", "e", "a", "t">>>>

\* line 187
PlateletsNames ==
    <<<<"p", "l", "a", "t", "e", "l", "e", "t">>,
      <<"p", "l", "a", "t", "e", "l", "e", "t", "s">>,
      <<"p", "l", "t">>,
      <<"p", "l", "a", "t", "e", "l", "e", "t", " ", "c", "o", "u", "n", "t">>>>

\* line 330
LabNameNames ==
    <<<<"l", "a", "b">>,
      <<"t", "e", "s", "t">>,
      <<"l", "a", "b", " ", "n", "a", "m", "e">>,
      <<"t", "e", "s", "t", " ", "n", "a", "m", "e">>>>

\* line 331
ValueNames ==
    <<<<"v", "a", "l", "u", "e">>,
      <<"r", "e", "s", "u", "l", "t">>,
      <<"l", "a", "b", " ", "v", "a", "l", "u", "e">>>>

\* line 332
KeyValueDateNames ==
    <<<<"d", "a", "t", "e">>,
      <<"l", "a", "b", " ", "d", "a", "t", "e">>,
      <<"c", "o", "l", "l", "e", "c", "t", "i", "o", "n", " ", "d", "a", "t", "e">>,
      <<"t", "i", "m", "e", "s", "t", "a", "m", "p">>>>

\* line 333
KeyValueDayNames ==
    <<<<"d", "a", "y">>,
      <<"d", "a", "y", "s">>,
      <<"d", "+">>>>

\* line 136
LabKeywords ==
    <<<<"l", "d", "h">>,
      <<"l", "a", "c", "t", "a", "t", "e">>,
      <<"c", "r", "e", "a", "t", "i", "n", "i", "n", "e">>,
      <<"c", "r">>,
      <<"c", "r", "e", "a", "t">>,
      <<"p", "l", "a", "t", "e", "l", "e", "t">>,
      <<"p", "l", "t">>>>

\* a ParsedLab; a lab value that is not set is undefined
ParsedLab(date, ldh, creatinine, platelets) ==
    [date |-> date, ldh |-> ldh, creatinine |-> creatinine,
     platelets |-> platelets]

HasDate(lab) == lab.date # NoDate

\* if (idx !== -1 && row[idx]) { val = parseFloat(row[idx]);
\*                               if (!isNaN(val)) lab.x = val }
ValueAt(row, idx) ==
    IF idx # -1 /\ CellAt(row, idx) # <<>>
          /\ ~isNaN(parseFloat(CellAt(row, idx)))
    THEN parseFloat(CellAt(row, idx))
    ELSE Undefined

\* the integer part of a finite number
Truncate(x) ==
    IF x[1] >= 0 THEN x[1] \div x[2] ELSE -((-x[1]) \div x[2])

\* labDate = new Date(transplantDate); labDate.setDate(getDate() + dayNum)
AddDays(date, dayNum) == <<date[1] + 24 * Truncate(dayNum)>>

\* lines 195-209 and 354-366: the date of a row, from its date cell or
\* from its day number and the transplant date
RowDate(row, dateIdx, dayIdx, transplantDateObj, formatHint) ==
    LET parsed == IF dateIdx # -1 /\ CellAt(row, dateIdx) # <<>>
                  THEN parseDate(CellAt(row, dateIdx), formatHint)
                  ELSE NoDate
        dayNum == parseFloat(CellAt(row, dayIdx))
    IN IF parsed # NoDate THEN parsed
       ELSE IF /\ dayIdx # -1
               /\ CellAt(row, dayIdx) # <<>>
               /\ transplantDateObj # NoDate
               /\ ~isNaN(dayNum)
       THEN AddDays(transplantDateObj, dayNum)
       ELSE NoDate

\* lines 183-187: the columns of the labs
StandardColumns(headers) ==
    [date |-> matchColumn(headers, DateNames),
     day |-> matchColumn(headers, DayNames),
     ldh |-> matchColumn(headers, LdhNames),
     creatinine |-> matchColumn(headers, CreatinineNames),
     platelets |-> matchColumn(headers, PlateletsNames)]

\* lines 191-231: the lab of a data row; a row without a date gives none
StandardLab(row, idx, transplantDateObj, formatHint) ==
    ParsedLab(IF row = <<>> THEN NoDate
              ELSE RowDate(row, idx.date, idx.day, transplantDateObj,
                           formatHint),
              ValueAt(row, idx.ldh),
              ValueAt(row, idx.creatinine),
              ValueAt(row, idx.platelets))

\* lines 179-234: one lab per data row that has a date
parseStandardFormat(data, transplantDateObj, formatHint) ==
    LET Labs(idx) ==
            SelectSeq(Array([i \in 1..(Len(data) - 1) |->
                          StandardLab(data[i + 1], idx, transplantDateObj,
                                      formatHint)]),
                      HasDate)
    IN IF Len(data) < 2 THEN <<>>
       ELSE The({Labs(idx) : idx \in {StandardColumns(data[1])}})

\* lines 377-383 and 452-454: the lab a name stands for
LabOfName(labName) ==
    IF includes(labName, <<"l", "d", "h">>)
          \/ includes(labName, <<"l", "a", "c", "t", "a", "t", "e">>)
    THEN "ldh"
    ELSE IF includes(labName, <<"c", "r", "e", "a", "t">>)
               \/ includes(labName, <<"c", "r">>)
    THEN "creatinine"
    ELSE IF includes(labName, <<"p", "l", "a", "t", "e", "l", "e", "t">>)
               \/ includes(labName, <<"p", "l", "t">>)
    THEN "platelets"
    ELSE ""

SetLab(lab, name, value) ==
    IF name = "ldh" THEN [lab EXCEPT !.ldh = value]
    ELSE IF name = "creatinine" THEN [lab EXCEPT !.creatinine = value]
    ELSE IF name = "platelets" THEN [lab EXCEPT !.platelets = value]
    ELSE lab

\* labsByDate.get(dateKey), created when the date is new, with the value set
PutLab(labs, date, name, value) ==
    IF \E k \in 1..Len(labs) : labs[k].date = date
    THEN [labs EXCEPT ![CHOOSE k \in 1..Len(labs) : labs[k].date = date] =
                 SetLab(@, name, value)]
    ELSE Append(labs, SetLab(ParsedLab(date, Undefined, Undefined, Undefined),
                             name, value))

\* lines 343-383: one pass of the loop
KeyValueRow(labs, row, idx, transplantDateObj, formatHint) ==
    LET value == parseFloat(CellAt(row, idx.value))
        labDate == RowDate(row, idx.date, idx.day, transplantDateObj,
                           formatHint)
    IN IF row = <<>> \/ isNaN(value) \/ labDate = NoDate THEN labs
       ELSE PutLab(labs, labDate,
                   LabOfName(toLowerCase(CellAt(row, idx.labName))), value)

\* lines 342-384: the rows from i on, added to the labs by date
RECURSIVE KeyValueRows(_, _, _, _, _, _)
KeyValueRows(data, i, labs, idx, transplantDateObj, formatHint) ==
    IF i > Len(data) THEN labs
    ELSE The({KeyValueRows(data, i + 1, next, idx, transplantDateObj,
                           formatHint) :
                 next \in {KeyValueRow(labs, data[i], idx, transplantDateObj,
                                       formatHint)}})

\* lines 330-333: the columns of the key-value format
KeyValueColumns(headers) ==
    [labName |-> matchColumn(headers, LabNameNames),
     value |-> matchColumn(headers, ValueNames),
     date |-> matchColumn(headers, KeyValueDateNames),
     day |-> matchColumn(headers, KeyValueDayNames)]

\* lines 325-387
parseKeyValueFormat(data, transplantDateObj, formatHint) ==
    LET Labs(idx) ==
            IF idx.labName = -1 \/ idx.value = -1 THEN <<>>
            ELSE KeyValueRows(data, 2, <<>>, idx, transplantDateObj,
                              formatHint)
    IN IF Len(data) < 2 THEN <<>>
       ELSE The({Labs(idx) : idx \in {KeyValueColumns(data[1])}})

NoLab(date) == ParsedLab(date, Undefined, Undefined, Undefined)

\* lines 248-259: what the first cell of a row says the row holds
RowKind(firstCell) ==
    IF includes(firstCell, <<"d", "a", "t", "e">>)
          \/ includes(firstCell, <<"t", "i", "m", "e">>)
    THEN "date"
    ELSE LabOfName(firstCell)

\* the index of the last row of the kind, or -1
LastRowOfKind(data, kind) ==
    LET rows == {i \in 1..Len(data) :
                    RowKind(toLowerCase(CellAt(data[i], 0))) = kind}
    IN IF rows = {} THEN -1
       ELSE (CHOOSE i \in rows : \A other \in rows : other <= i) - 1

\* lines 262-277: without a date row, the first row if it names days or
\* has a date in its second cell
DateRowIdx(data, formatHint) ==
    IF LastRowOfKind(data, "date") # -1 THEN LastRowOfKind(data, "date")
    ELSE IF CellAt(data[1], 0) # <<>>
              /\ includes(toLowerCase(CellAt(data[1], 0)), <<"d", "a", "y">>)
    THEN 0
    ELSE IF Len(data[1]) > 1
              /\ parseDate(CellAt(data[1], 1), formatHint) # NoDate
    THEN 0
    ELSE -1

\* lines 286-297: the date of a column, from a date or from a day number
ColumnDate(cell, transplantDateObj, formatHint) ==
    IF cell = <<>> THEN NoDate
    ELSE IF parseDate(cell, formatHint) # NoDate
    THEN parseDate(cell, formatHint)
    ELSE IF transplantDateObj # NoDate /\ ~isNaN(parseFloat(cell))
    THEN AddDays(transplantDateObj, parseFloat(cell))
    ELSE NoDate

RowAt(data, idx) == IF idx = -1 THEN <<>> ELSE data[idx + 1]

MaxLength(data) ==
    CHOOSE n \in {Len(data[i]) : i \in 1..Len(data)} :
        \A i \in 1..Len(data) : Len(data[i]) <= n

\* lines 242-277: the rows that hold the dates and the three labs
TransposedRows(data, formatHint) ==
    [date |-> RowAt(data, DateRowIdx(data, formatHint)),
     ldh |-> RowAt(data, LastRowOfKind(data, "ldh")),
     creatinine |-> RowAt(data, LastRowOfKind(data, "creatinine")),
     platelets |-> RowAt(data, LastRowOfKind(data, "platelets")),
     found |-> DateRowIdx(data, formatHint) # -1]

\* lines 283-319: the lab of a column
TransposedLab(rows, col, transplantDateObj, formatHint) ==
    ParsedLab(ColumnDate(CellAt(rows.date, col), transplantDateObj,
                         formatHint),
              ValueAt(rows.ldh, IF rows.ldh = <<>> THEN -1 ELSE col),
              ValueAt(rows.creatinine,
                      IF rows.creatinine = <<>> THEN -1 ELSE col),
              ValueAt(rows.platelets,
                      IF rows.platelets = <<>> THEN -1 ELSE col))

\* lines 237-322: one lab per column that has a date
parseTransposedFormat(data, transplantDateObj, formatHint) ==
    LET Labs(rows) ==
            IF ~rows.found THEN <<>>
            ELSE SelectSeq(Array([col \in 1..(MaxLength(data) - 1) |->
                               TransposedLab(rows, col, transplantDateObj,
                                             formatHint)]),
                           HasDate)
    IN IF Len(data) < 2 THEN <<>>
       ELSE The({Labs(rows) : rows \in {TransposedRows(data, formatHint)}})

\* the state of the loop of parsePastedFormat: the labs pushed, the lab
\* being filled (<<>> when null), the lab name waiting for its value ("" when
\* null) and whether the current date came from a date
PastedStart ==
    [labs |-> <<>>, currentLab |-> <<>>, lastLabName |-> "",
     dateWasActualDate |-> FALSE]

\* lines 423-430 and 439-447: a new date starts a new lab
StartLab(st, date, actualDate) ==
    [labs |-> st.labs \o st.currentLab,
     currentLab |-> <<NoLab(date)>>,
     lastLabName |-> "",
     dateWasActualDate |-> actualDate]

\* line 438: an integer day number inside the window
IsDayNumber(dayNum) ==
    /\ ~isNaN(dayNum)
    /\ isFinite(dayNum)
    /\ dayNum[2] = 1
    /\ Le(Num(20), dayNum)
    /\ Le(dayNum, Num(120))

\* lines 399-496: one pass of the loop
PastedRow(st, row, transplantDateObj, formatHint) ==
    LET firstCell == CellAt(row, 0)
        firstCellStr == trim(toLowerCase(firstCell))
        possibleDate == parseDate(firstCell, formatHint)
        labName == LabOfName(firstCellStr)
        secondCell == CellAt(row, 1)
    IN IF row = <<>> \/ \A k \in 1..Len(row) : trim(row[k]) = <<>>
       THEN [st EXCEPT !.lastLabName = ""]
       ELSE IF firstCell = <<>> \/ trim(firstCell) = <<>> THEN st
       ELSE IF possibleDate # NoDate THEN StartLab(st, possibleDate, TRUE)
       ELSE IF /\ st.lastLabName = ""
               /\ ~st.dateWasActualDate
               /\ transplantDateObj # NoDate
               /\ ~includes(firstCellStr, <<".">>)
               /\ IsDayNumber(parseFloat(firstCell))
       THEN StartLab(st, AddDays(transplantDateObj, parseFloat(firstCell)),
                     FALSE)
       ELSE IF st.currentLab # <<>> /\ labName # ""
       THEN IF secondCell # <<>> /\ ~isNaN(parseFloat(secondCell))
            THEN [st EXCEPT
                    !.currentLab = <<SetLab(@[1], labName,
                                            parseFloat(secondCell))>>,
                    !.lastLabName = ""]
            ELSE [st EXCEPT !.lastLabName = labName]
       ELSE IF /\ st.currentLab # <<>>
               /\ st.lastLabName # ""
               /\ ~isNaN(parseFloat(firstCell))
       THEN [st EXCEPT
                !.currentLab = <<SetLab(@[1], st.lastLabName,
                                        parseFloat(firstCell))>>,
                !.lastLabName = ""]
       ELSE st

RECURSIVE PastedRows(_, _, _, _, _)
PastedRows(data, i, st, transplantDateObj, formatHint) ==
    IF i > Len(data) THEN st
    ELSE The({PastedRows(data, i + 1, next, transplantDateObj, formatHint) :
                 next \in {PastedRow(st, data[i], transplantDateObj,
                                     formatHint)}})

\* lines 391-505
parsePastedFormat(data, transplantDateObj, formatHint) ==
    The({st.labs \o st.currentLab :
            st \in {PastedRows(data, 1, PastedStart, transplantDateObj,
                               formatHint)}})

\* lines 135-141
containsLabNames(values) ==
    \E k \in 1..Len(LabKeywords), v \in 1..Len(values) :
        includes(toLowerCase(values[v]), LabKeywords[k])

NonEmptyCells(row) == Cardinality({k \in 1..Len(row) : trim(row[k]) # <<>>})

\* lines 514-525: more than 80% of the rows that hold anything hold one cell
IsSingleColumn(data) ==
    LET totalRows == Cardinality({i \in 1..Len(data) :
                                      NonEmptyCells(data[i]) > 0})
        singleColumnRows == Cardinality({i \in 1..Len(data) :
                                             NonEmptyCells(data[i]) = 1})
    IN totalRows > 0 /\ 10 * singleColumnRows > 8 * totalRows

IsTruthy(cell) == cell # <<>>

\* lines 556-568: the standard format, then key-value, then pasted
StandardOrLater(data, transplantDateObj, formatHint) ==
    The({IF standardLabs # <<>> THEN standardLabs
         ELSE The({IF kvLabs # <<>> THEN kvLabs
                   ELSE parsePastedFormat(data, transplantDateObj,
                                          formatHint) :
                      kvLabs \in {parseKeyValueFormat(data, transplantDateObj,
                                                      formatHint)}}) :
            standardLabs \in {parseStandardFormat(data, transplantDateObj,
                                                  formatHint)}})

\* lines 535-554: with lab names in the first column, key-value if names
\* repeat and transposed otherwise
ByLabNames(data, transplantDateObj, formatHint) ==
    LET firstColumn ==
            SelectSeq(Array([i \in 1..Len(data) |-> CellAt(data[i], 0)]),
                      IsTruthy)
        isRepeated ==
            Cardinality({toLowerCase(firstColumn[k]) :
                            k \in 1..Len(firstColumn)}) < Len(firstColumn)
    IN IF Len(data) > 1 /\ containsLabNames(firstColumn)
       THEN IF isRepeated
            THEN parseKeyValueFormat(data, transplantDateObj, formatHint)
            ELSE parseTransposedFormat(data, transplantDateObj, formatHint)
       ELSE <<>>

\* lines 508-569
detectAndParse(data, transplantDateObj, formatHint) ==
    IF data = <<>> THEN <<>>
    ELSE The({IF pastedLabs # <<>> THEN pastedLabs
              ELSE The({IF labs # <<>> THEN labs
                        ELSE StandardOrLater(data, transplantDateObj,
                                             formatHint) :
                           labs \in {ByLabNames(data, transplantDateObj,
                                                formatHint)}}) :
                 pastedLabs \in
                     {IF IsSingleColumn(data)
                      THEN parsePastedFormat(data, transplantDateObj,
                                             formatHint)
                      ELSE <<>>}})

\* toISOString().split('T')[0]: the day of the instant (the zone is UTC)
DateKey(lab) == lab.date[1] \div 24

\* the labs of the days in the order in which the days first appear
RECURSIVE GroupByDay(_)
GroupByDay(labs) ==
    IF labs = <<>> THEN <<>>
    ELSE LET SameDay(lab) == DateKey(lab) = DateKey(labs[1])
             OtherDay(lab) == DateKey(lab) # DateKey(labs[1])
         IN <<SelectSeq(labs, SameDay)>>
               \o The({GroupByDay(rest) :
                          rest \in {SelectSeq(labs, OtherDay)}})

MaxOf(values) == CHOOSE v \in values : \A other \in values : Le(other, v)
MinOf(values) == CHOOSE v \in values : \A other \in values : Le(v, other)

Defined(dayLabs, field) ==
    {dayLabs[k][field] : k \in 1..Len(dayLabs)} \ {Undefined}

HasAllLabs(dayLabs) ==
    /\ Defined(dayLabs, "ldh") # {}
    /\ Defined(dayLabs, "creatinine") # {}
    /\ Defined(dayLabs, "platelets") # {}

\* lines 144-176: one lab per day on which all three labs are present, with
\* the worst values of the day
consolidateSameDayLabs(labs) ==
    LET Consolidated(grouped) ==
            Array([k \in 1..Len(grouped) |->
                ParsedLab(grouped[k][1].date,
                          MaxOf(Defined(grouped[k], "ldh")),
                          MaxOf(Defined(grouped[k], "creatinine")),
                          MinOf(Defined(grouped[k], "platelets")))])
    IN The({Consolidated(grouped) :
               grouped \in {SelectSeq(GroupByDay(labs), HasAllLabs)}})

\* lines 129-132
calculateDaysFromTransplant(labDate, transplantDateObj) ==
    MathRound(Rat(labDate[1] - transplantDateObj[1], 24))

\* Number.prototype.toString of a number with a finite decimal expansion
RECURSIVE IntegerDigits(_)
IntegerDigits(n) ==
    IF n < 10 THEN <<Digits[n + 1]>>
    ELSE Append(IntegerDigits(n \div 10), Digits[(n % 10) + 1])

RECURSIVE FractionDigits(_, _)
FractionDigits(r, d) ==
    IF r = 0 THEN <<>>
    ELSE <<Digits[((10 * r) \div d) + 1]>> \o FractionDigits((10 * r) % d, d)

NumberToString(x) ==
    LET n == IF x[1] < 0 THEN -x[1] ELSE x[1]
    IN (IF x[1] < 0 THEN <<"-">> ELSE <<>>)
       \o IntegerDigits(n \div x[2])
       \o (IF n % x[2] = 0 THEN <<>>
           ELSE <<".">> \o FractionDigits(n % x[2], x[2]))

\* lab.x?.toString() || ''
ValueToString(x) == IF x = Undefined THEN <<>> ELSE NumberToString(x)

FileParseResult(imported, missingValues, outOfRange, complete, error,
                needsTransplantDate) ==
    [imported |-> imported, missingValues |-> missingValues,
     outOfRange |-> outOfRange, complete |-> complete, error |-> error,
     needsTransplantDate |-> needsTransplantDate]

\* lines 598-625: one pass of the loop
ConvertLab(r, lab, transplantDateObj) ==
    LET day == calculateDaysFromTransplant(lab.date, transplantDateObj)
        hasMissing == Falsy(lab.ldh) \/ Falsy(lab.creatinine)
                          \/ Falsy(lab.platelets)
    IN IF transplantDateObj = NoDate THEN r
       ELSE IF Lt(day, Num(20)) \/ Lt(Num(120), day)
       THEN [r EXCEPT !.outOfRange = @ + 1]
       ELSE [r EXCEPT
               !.missingValues = IF hasMissing THEN @ + 1 ELSE @,
               !.complete = IF hasMissing THEN @ ELSE @ + 1,
               !.imported =
                   Append(@, LabRow(NumberToString(day),
                                    ValueToString(lab.ldh),
                                    ValueToString(lab.creatinine),
                                    ValueToString(lab.platelets)))]

\* lines 597-626: the labs from k on, added to the result so far
RECURSIVE ConvertLabs(_, _, _, _)
ConvertLabs(labs, k, transplantDateObj, r) ==
    IF k > Len(labs) THEN r
    ELSE The({ConvertLabs(labs, k + 1, transplantDateObj, next) :
                 next \in {ConvertLab(r, labs[k], transplantDateObj)}})

ErrorNoLabData == "No valid lab data found in file"

\* lines 572-635; error "" and needsTransplantDate FALSE stand for the
\* fields that are not set
convertToLabRows(labs, transplantDateObj) ==
    LET Convert(consolidatedLabs) ==
            ConvertLabs(consolidatedLabs, 1, transplantDateObj,
                        FileParseResult(<<>>, 0, 0, 0, "",
                                        transplantDateObj = NoDate))
    IN IF labs = <<>>
       THEN FileParseResult(<<>>, 0, 0, 0, ErrorNoLabData, FALSE)
       ELSE The({Convert(consolidatedLabs) :
                    consolidatedLabs \in {consolidateSameDayLabs(labs)}})

\* parseInt of a string that starts with digits
parseInt(s) == DecimalValue(s, 1, DigitRun(s, 1))

\* lines 643-649: the YYYY-MM-DD of the date input, at noon
TransplantDateObj(transplantDateString) ==
    LET parts == split(transplantDateString, "-")
    IN IF transplantDateString # <<>> /\ Len(parts) = 3
       THEN NewDate(parseInt(parts[1]), parseInt(parts[2]) - 1,
                    parseInt(parts[3]), 12)
       ELSE NoDate

\* text.replace(/\r\n/g, '\n').replace(/\r/g, '\n')
NormalizeLineEndings(text) ==
    LET Dropped(i) == text[i] = "\r" /\ i < Len(text) /\ text[i + 1] = "\n"
        Kept(c) == c # ""
    IN SelectSeq(Array([i \in 1..Len(text) |->
                           IF Dropped(i) THEN ""
                           ELSE IF text[i] = "\r" THEN "\n"
                           ELSE text[i]]),
                 Kept)

TrimCells(cells) == Array([k \in 1..Len(cells) |-> trim(cells[k])])

\* lines 660-664: the cells of a CSV text
CsvData(text) ==
    LET Cells(lines) ==
            Array([i \in 1..Len(lines) |-> TrimCells(split(lines[i], ","))])
    IN The({Cells(lines) :
               lines \in {split(trim(normalizedText), "\n") :
                             normalizedText \in
                                 {NormalizeLineEndings(text)}}})

\* lines 638-691 for a file whose name ends in .csv; none of the parsers
\* throws on the cells of a CSV text, so the catch block is not entered
parseFile(file, transplantDateString) ==
    The({The({convertToLabRows(parsedLabs, transplantDateObj) :
                 parsedLabs \in
                     {detectAndParse(data, transplantDateObj, dateFormat) :
                         dateFormat \in {detectDateFormat(data)}}}) :
            transplantDateObj \in {TransplantDateObj(transplantDateString)},
            data \in {CsvData(file.text)}})

\* part_003 lines 382-385: the sample file of downloadSampleCSV
SampleCsvText ==
    <<"D", "a", "y", ",", "L", "D", "H", ",", "C", "r", "e", "a", "t", "i", "n", "i", "n", "e", ",", "P", "l", "a", "t", "e", "l", "e", "t", "s">> \o <<"\n">>
    \o <<"3", "0", ",", "2", "5", "0", ",", "0", ".", "9", ",", "1", "5", "0">> \o <<"\n">>
    \o <<"6", "0", ",", "3", "5", "0", ",", "1", ".", "1", ",", "1", "0", "0">> \o <<"\n">>
    \o <<"8", "5", ",", "4", "5", "0", ",", "1", ".", "2", ",", "8", "0">>

\* a file with dates, written with CR LF line ends: day +60 and day +140
\* after a transplantation on 2024-01-01
DatedCsvText ==
    <<"D", "a", "t", "e", ",", "L", "D", "H", ",", "C", "r", "e", "a", "t", "i", "n", "i", "n", "e", ",", "P", "l", "a", "t", "e", "l", "e", "t", "s">> \o <<"\r", "\n">>
    \o <<"2", "0", "2", "4", "-", "0", "3", "-", "0", "1", ",", "3", "5", "0", ",", "1", ".", "1", "0", ",", "1", "0", "0">> \o <<"\r", "\n">>
    \o <<"2", "0", "2", "4", "-", "0", "5", "-", "2", "0", ",", "4", "0", "0", ",", "1", ".", "0", ",", "9", "0">>

\* a file that holds no labs
NotesCsvText ==
    <<"P", "a", "t", "i", "e", "n", "t", ",", "N", "o", "t", "e">> \o <<"\n">>
    \o <<"A", ",", "n", "o", "n", "e">>

\* a call of parseFile and what it returned
ParseFileCall(file, transplantDateString) ==
    [file |-> file, transplantDate |-> transplantDateString,
     result |-> parseFile(file, transplantDateString)]

\* what the call of parseFile on the file and date returned
ResultOf(parseCalls, file, transplantDateString) ==
    (CHOOSE call \in parseCalls :
        call.file = file /\ call.transplantDate = transplantDateString).result

File(name, text) == [name |-> name, text |-> text]

\* the files a user uploads
FilePool ==
    {File("easix_sample.csv", SampleCsvText),
     File("labs_by_date.csv", DatedCsvText),
     File("notes.csv", NotesCsvText)}

\* the values of the transplant date input: empty or a date
TransplantDates ==
    {<<>>, <<"2", "0", "2", "4", "-", "0", "1", "-", "0", "1">>}

-----------------------------------------------------------------------------
(* unnamed/part_003: the state of the App component and its handlers *)

EmptyRow == LabRow(<<>>, <<>>, <<>>, <<>>)

\* part_003 lines 374-378
EXAMPLE_DATA ==
    <<LabRow(<<"3", "0">>, <<"2", "5", "0">>, <<"0", ".", "9">>,
             <<"1", "5", "0">>),
      LabRow(<<"6", "0">>, <<"3", "5", "0">>, <<"1", ".", "1">>,
             <<"1", "0", "0">>),
      LabRow(<<"8", "5">>, <<"4", "5", "0">>, <<"1", ".", "2">>,
             <<"8", "0">>)>>

\* what a user types into a field of a row: the day is cleared
FieldUpdates == {<<"day", <<>>>>}

\* the message shown after an upload: its type and the parts of its text
Message(type, text) == <<[type |-> type, text |-> text]>>

\* the text of a message is the list of its parts, as messages.join('. ')
\* puts them together; a fixed text is one part
OnePart(text) == <<<<text>>>>

TextNeedsTransplantDate ==
    "Please enter the transplant date (HSCT) above to import labs with date timestamps"

\* lines 467-476: the parts of the success message that are present
SuccessText(r) ==
    <<<<"Successfully imported", Len(r.imported), r.complete>>>>
    \o (IF r.missingValues > 0
        THEN <<<<"missing values", r.missingValues>>>> ELSE <<>>)
    \o (IF r.outOfRange > 0
        THEN <<<<"outside day 20-120", r.outOfRange>>>> ELSE <<>>)

\* the component is mounted: one empty row, nothing selected, no results;
\* the first render is still to come
InitApp ==
    /\ model = FixtureModel
    /\ engine \in Engines
    /\ NoCall
    /\ hazardCalls = <<>>
    /\ NoInterleavedCalls
    /\ NoMatrixCall
    /\ NoScript
    /\ labRows = <<EmptyRow>>
    /\ driSelection = ""
    /\ transplantDate = <<>>
    /\ results = <<>>
    /\ uploadMessage = <<>>
    /\ upload = {ParseFileCall(file, date) :
                    file \in FilePool, date \in TransplantDates}
    /\ calculation = <<>>

\* the component has rendered with the current state: calculation holds
\* what the hook returned for labRows and dri (line 409)
Rendered == calculation # <<>>

\* the state setters of one event: a call of setLabRows or a new value of
\* dri makes the next render recompute the memoized calculation; the
\* handlers of the next event are those of that render
SetState(rows, selection, date, shown, message) ==
    /\ Rendered
    /\ labRows' = rows
    /\ driSelection' = selection
    /\ transplantDate' = date
    /\ results' = shown
    /\ uploadMessage' = message
    /\ calculation' =
          IF rows # labRows \/ selection # driSelection THEN <<>>
          ELSE calculation
    /\ UNCHANGED <<model, callerVars, engine, calls, hazardCalls,
                   interleavedVars, matrixCall, upload, script>>

\* line 409: the render after labRows or dri changed
RenderApp ==
    /\ ~Rendered
    /\ calculation' = <<useEasixCalculation(labRows, driSelection)>>
    /\ UNCHANGED <<model, callerVars, engine, calls, hazardCalls,
                   interleavedVars, matrixCall, script, labRows,
                   driSelection, appVars>>

\* lines 411-413
addRow ==
    /\ Len(labRows) < MaxRows
    /\ SetState(Append(labRows, EmptyRow), driSelection, transplantDate,
                results, uploadMessage)

\* lines 414-416
removeRow(i) ==
    /\ i \in 1..Len(labRows)
    /\ SetState(SubSeq(labRows, 1, i - 1)
                    \o SubSeq(labRows, i + 1, Len(labRows)),
                driSelection, transplantDate, results, uploadMessage)

\* lines 417-419
updateRow(i, field, value) ==
    /\ i \in 1..Len(labRows)
    /\ labRows[i][field] # value
    /\ SetState([labRows EXCEPT ![i][field] = value], driSelection,
                transplantDate, results, uploadMessage)

\* line 621: the DRI select
setDri(selection) ==
    /\ selection # driSelection
    /\ SetState(labRows, selection, transplantDate, results, uploadMessage)

\* line 538: the transplant date input
setTransplantDate(value) ==
    /\ value # transplantDate
    /\ SetState(labRows, driSelection, value, results, uploadMessage)

\* lines 421-423
handleCompute ==
    /\ results # calculation
    /\ SetState(labRows, driSelection, transplantDate, calculation,
                uploadMessage)

\* lines 425-431
handleClear ==
    SetState(<<EmptyRow>>, "", <<>>, <<>>, <<>>)

\* lines 433-437
loadExample ==
    SetState(EXAMPLE_DATA, driSelection, transplantDate, <<>>, <<>>)

\* the handler with setLabRows and setResults moved before the two early
\* returns
AfterParseFile_importsFirst(r) ==
    IF r.needsTransplantDate
    THEN SetState(r.imported, driSelection, transplantDate, <<>>,
                  Message("warning", OnePart(TextNeedsTransplantDate)))
    ELSE IF r.error # ""
    THEN SetState(r.imported, driSelection, transplantDate, <<>>,
                  Message("error", OnePart(r.error)))
    ELSE SetState(r.imported, driSelection, transplantDate, <<>>,
                  Message(IF r.missingValues > 0 THEN "warning"
                          ELSE "success",
                          SuccessText(r)))

\* lines 450-481: what the handler does with the result of parseFile
AfterParseFile(r) ==
    IF r.needsTransplantDate
    THEN SetState(labRows, driSelection, transplantDate, results,
                  Message("warning", OnePart(TextNeedsTransplantDate)))
    ELSE IF r.error # ""
    THEN SetState(labRows, driSelection, transplantDate, results,
                  Message("error", OnePart(r.error)))
    ELSE SetState(r.imported, driSelection, transplantDate, <<>>,
                  Message(IF r.missingValues > 0 THEN "warning"
                          ELSE "success",
                          SuccessText(r)))

\* lines 439-482: the file chosen is parsed with the transplant date of
\* the render (transplantDate || null) and the handler goes on with the
\* result; the events that arrive while it waits are not interleaved.
\* parseFile is a function of the file and the date: upload holds its
\* value for each file and date a user can choose.
handleFileUpload(file) ==
    AfterParseFile(ResultOf(upload, file, transplantDate))

NextApp ==
    \/ RenderApp
    \/ addRow
    \/ \E i \in 1..MaxRows : removeRow(i)
    \/ \E i \in 1..MaxRows, update \in FieldUpdates :
          updateRow(i, update[1], update[2])
    \/ \E selection \in DriSelections : setDri(selection)
    \/ \E value \in TransplantDates : setTransplantDate(value)
    \/ handleCompute
    \/ handleClear
    \/ loadExample
    \/ \E file \in FilePool : handleFileUpload(file)

SpecApp == InitApp /\ [][NextApp]_vars

\* C29: in every rendered state of the App where results is not null,
\* results is the calculation for the current labRows and DRI selection
C29_ResultsNeverStale ==
    (Rendered /\ results # <<>>) => results = calculation

\* what parseFile returns for the file with the transplant date of the
\* current render
UploadResult(file) == ResultOf(upload, file, transplantDate)

UploadFails(file) ==
    UploadResult(file).needsTransplantDate \/ UploadResult(file).error # ""

\* C30: an upload that ends with a parse error or with needsTransplantDate
\* changes only the upload message, labRows and results stay as they were;
\* a successful upload replaces labRows by the imported rows and sets
\* results to null
C30_FailedUploadChangesOnlyMessage ==
    [][\A file \in FilePool :
          handleFileUpload(file) =>
              IF UploadFails(file)
              THEN /\ labRows' = labRows
                   /\ results' = results
                   /\ driSelection' = driSelection
                   /\ transplantDate' = transplantDate
                   /\ uploadMessage' # <<>>
              ELSE /\ labRows' = UploadResult(file).imported
                   /\ results' = <<>>]_vars

\* results were computed for the example rows and an upload then failed:
\* rows and results are still there, next to the error message
C30_Witness ==
    /\ labRows = EXAMPLE_DATA
    /\ results # <<>>
    /\ results = calculation
    /\ uploadMessage = Message("error", OnePart(ErrorNoLabData))

\* a successful upload after a failed one: the rows of the file, no results
UploadSucceeded ==
    /\ labRows = UploadResult(File("labs_by_date.csv", DatedCsvText)).imported
    /\ transplantDate # <<>>
    /\ results = <<>>
    /\ uploadMessage # <<>>
    /\ uploadMessage[1].type = "success"


-----------------------------------------------------------------------------
(* utils/fileParser.ts: parseFile on files with a Day column *)

MaxLines == 3       \* most data lines of a generated file

\* lines of files with a Day column, by day; the second to the sixth have
\* a day in 20-120
DayRows ==
    <<LabRow(<<"1", "0">>, <<"2", "0", "0">>, <<"0", ".", "8">>,
             <<"2", "0", "0">>),
      LabRow(<<"2", "0">>, <<"2", "2", "0">>, <<"0", ".", "7">>,
             <<"1", "8", "0">>),
      LabRow(<<"3", "0">>, <<"2", "5", "0">>, <<"0", ".", "9">>,
             <<"1", "5", "0">>),
      LabRow(<<"6", "0">>, <<"3", "5", "0">>, <<"1", ".", "1">>,
             <<"1", "0", "0">>),
      LabRow(<<"8", "5">>, <<"4", "5", "0">>, <<"1", ".", "2">>,
             <<"8", "0">>),
      LabRow(<<"1", "2", "0">>, <<"5", "0", "0">>, <<"1", ".", "5">>,
             <<"6", "0">>),
      LabRow(<<"1", "3", "0">>, <<"3", "0", "0">>, <<"1", ".", "3">>,
             <<"1", "2", "0">>)>>

\* the rows of DayRows at the positions in chosen, in the order of DayRows
RowsAt(chosen) ==
    LET Chosen(row) == row # EmptyRow
    IN SelectSeq(Array([i \in 1..Len(DayRows) |->
                           IF i \in chosen THEN DayRows[i] ELSE EmptyRow]),
                 Chosen)

\* the data of the files: up to MaxLines rows with increasing days
DayRowLists ==
    {RowsAt(chosen) :
        chosen \in {some \in SUBSET (1..Len(DayRows)) :
                       Cardinality(some) \in 1..MaxLines}}

\* part_003 lines 382-385: the header of the sample file
DayHeader ==
    <<"D", "a", "y", ",", "L", "D", "H", ",", "C", "r", "e", "a", "t", "i", "n", "i", "n", "e", ",", "P", "l", "a", "t", "e", "l", "e", "t", "s">>

CsvLine(row) ==
    row.day \o <<",">> \o row.ldh \o <<",">> \o row.creatinine \o <<",">>
        \o row.platelets

RECURSIVE CsvLines(_)
CsvLines(rows) ==
    IF rows = <<>> THEN <<>>
    ELSE <<"\n">> \o CsvLine(Head(rows)) \o CsvLines(Tail(rows))

\* the file that lists rows under the header of the sample file
DayFile(rows) == File("days.csv", DayHeader \o CsvLines(rows))

DayFiles == {DayFile(rows) : rows \in DayRowLists}

\* the rows with a day in 20-120
InRange(rows) ==
    LET DayInRange(row) == parseInt(row.day) \in 20..120
    IN SelectSeq(rows, DayInRange)

InitParse ==
    /\ model = FixtureModel
    /\ engine \in Engines
    /\ NoCall
    /\ hazardCalls = <<>>
    /\ NoInterleavedCalls
    /\ NoMatrixCall
    /\ NoCalculation

\* fileParser.ts lines 638-691: one call of parseFile, on a file with a Day
\* column or on a file of FilePool, with or without a transplant date
CallParseFile(file, transplantDateString) ==
    /\ upload = <<>>
    /\ upload' = ParseFileCall(file, transplantDateString)
    /\ UNCHANGED <<model, callerVars, engine, calls, hazardCalls,
                   interleavedVars, matrixCall, hookVars, transplantDate,
                   results, uploadMessage, script>>

NextParse ==
    \E file \in DayFiles \cup FilePool, date \in TransplantDates :
        CallParseFile(file, date)

SpecParse == InitParse /\ [][NextParse]_vars

\* parseFile was called without a transplant date on a file with a Day
\* column
DayFileWithoutDate ==
    /\ upload # <<>>
    /\ upload.file \in DayFiles
    /\ upload.transplantDate = <<>>

\* C21: parseFile(file, null) on a file with a Day column returns the rows
\* of the file with a day in 20-120 in imported, no error, and does not ask
\* for a transplant date
C21_DayFileImportsWithoutTransplantDate ==
    DayFileWithoutDate =>
        /\ \A rows \in DayRowLists :
              upload.file = DayFile(rows)
                  => upload.result.imported = InRange(rows)
        /\ upload.result.error = ""
        /\ ~upload.result.needsTransplantDate

\* with a transplant date the same call returns those rows
DayFileImportsWithTransplantDate ==
    (upload # <<>> /\ upload.file \in DayFiles
        /\ upload.transplantDate # <<>>)
        => /\ \A rows \in DayRowLists :
                 upload.file = DayFile(rows)
                     => upload.result.imported = InRange(rows)
           /\ upload.result.needsTransplantDate = FALSE

=============================================================================
